---- MODULE Spec2Model ----
(***************************************************************************)
(* Tau Retail: the action library (verl/tools/tau_retail/_logic.py), the   *)
(* dispatcher and the equivalence scorer                                   *)
(* (verl/utils/reward_score/tau_retail.py).                                *)
(*                                                                         *)
(* Python values are encoded as records [t, v]: t is the Python type and v *)
(* the payload.  A dict is the sequence of its <<key, value>> pairs in     *)
(* insertion order, a list is the sequence of its elements.  Money is held *)
(* in hundredths: the float 10.0 is PFloat(1000), the int 6 is PInt(6).    *)
(* A call of a library function yields [data, ret, exc]: the state it      *)
(* leaves, the value it returns, and the exception it raises ("none" when  *)
(* it returns normally).                                                   *)
(***************************************************************************)
EXTENDS Integers, Sequences, FiniteSets, TLC

VARIABLES
    raw_data,   \* the initial snapshot (load_data())
    data,       \* the trajectory's working copy, mutated by the calls
    last,       \* the last call: its route, its action, what it returned or raised
    gt,         \* the instance's ground truth (the argument ground_truth)
    calls       \* the scoring calls in progress, by caller: their local variables

vars == <<raw_data, data, last, gt, calls>>

----------------------------------------------------------------------------
(* Strings: code-point order, str.lower(), the `in` substring test.        *)

\* the characters the model's strings use, in code-point order
Ascii ==
    " #-.0123456789:@ABCDEFGHIJKLMNOPQRSTUVWXYZ_abcdefghijklmnopqrstuvwxyz"

Chars == {SubSeq(Ascii, i, i) : i \in 1..Len(Ascii)}

\* the rank of c in code-point order (ord(c) up to a monotone map)
Ord == [c \in Chars |-> CHOOSE i \in 1..Len(Ascii) : SubSeq(Ascii, i, i) = c]

UpperCase == "ABCDEFGHIJKLMNOPQRSTUVWXYZ"

LowerCase == "abcdefghijklmnopqrstuvwxyz"

LowerChar ==
    [c \in Chars |->
        IF \E i \in 1..Len(UpperCase) : SubSeq(UpperCase, i, i) = c
        THEN LET i == CHOOSE j \in 1..Len(UpperCase) : SubSeq(UpperCase, j, j) = c
             IN  SubSeq(LowerCase, i, i)
        ELSE c]

RECURSIVE Lower(_)
\* s.lower()
Lower(s) ==
    IF Len(s) = 0 THEN ""
    ELSE LowerChar[SubSeq(s, 1, 1)] \o Lower(SubSeq(s, 2, Len(s)))

RECURSIVE StrLess(_, _)
\* a < b on str: lexicographic by code point
StrLess(a, b) ==
    IF Len(b) = 0 THEN FALSE
    ELSE IF Len(a) = 0 THEN TRUE
    ELSE LET ca == Ord[SubSeq(a, 1, 1)]
             cb == Ord[SubSeq(b, 1, 1)]
         IN  IF ca # cb THEN ca < cb
             ELSE StrLess(SubSeq(a, 2, Len(a)), SubSeq(b, 2, Len(b)))

\* sub in s
Contains(sub, s) ==
    \E i \in 1..(Len(s) - Len(sub) + 1) : SubSeq(s, i, i + Len(sub) - 1) = sub

RECURSIVE Sorted(_)
\* sorted(xs) for a sequence of str: insertion of the head into the sorted tail
Sorted(xs) ==
    IF Len(xs) = 0 THEN <<>>
    ELSE LET rest == Sorted(Tail(xs))
             x == Head(xs)
             n == Cardinality({i \in 1..Len(rest) : StrLess(rest[i], x)})
         IN  SubSeq(rest, 1, n) \o <<x>> \o SubSeq(rest, n + 1, Len(rest))

----------------------------------------------------------------------------
(* Floats (IEEE 754 doubles): addition and subtraction rounded to nearest, *)
(* ties to even, and round(x, 2), computed exactly.                        *)

\* a natural number of any size is the sequence of its digits to the base 2^15,
\* lowest first, the highest not 0
Base == 2^15

DigitAt(a, i) == IF i >= 1 /\ i <= Len(a) THEN a[i] ELSE 0

\* a without its high zeros
Norm(a) ==
    IF \A i \in 1..Len(a) : a[i] = 0 THEN <<>>
    ELSE SubSeq(a, 1, CHOOSE i \in 1..Len(a) : a[i] # 0 /\ \A j \in (i + 1)..Len(a) : a[j] = 0)

RECURSIVE AddFrom(_, _, _, _, _)
\* the digits i.. of a + b, s being the sum of the digits i and of the carry
AddFrom(a, b, i, n, s) ==
    IF i > n THEN (IF s = 0 THEN <<>> ELSE <<s>>)
    ELSE <<s % Base>>
         \o AddFrom(a, b, i + 1, n, DigitAt(a, i + 1) + DigitAt(b, i + 1) + s \div Base)

\* a + b
AddDigits(a, b) ==
    AddFrom(a, b, 1, IF Len(a) > Len(b) THEN Len(a) ELSE Len(b), DigitAt(a, 1) + DigitAt(b, 1))

RECURSIVE SubFrom(_, _, _, _)
\* the digits i.. of a - b, s being the difference of the digits i less the
\* borrow
SubFrom(a, b, i, s) ==
    IF i > Len(a) THEN <<>>
    ELSE <<(s + Base) % Base>>
         \o SubFrom(a, b, i + 1, DigitAt(a, i + 1) - DigitAt(b, i + 1) - (IF s < 0 THEN 1 ELSE 0))

\* a - b, for a >= b
SubDigits(a, b) == Norm(SubFrom(a, b, 1, DigitAt(a, 1) - DigitAt(b, 1)))

\* a < b
LessDigits(a, b) ==
    \/ Len(a) < Len(b)
    \/ /\ Len(a) = Len(b)
       /\ \E i \in 1..Len(a) : a[i] < b[i] /\ \A j \in (i + 1)..Len(a) : a[j] = b[j]

RECURSIVE MulFrom(_, _, _, _)
\* the digits i.. of a * m, s being the product of the digit i plus the carry
MulFrom(a, m, i, s) ==
    IF i > Len(a) THEN (IF s = 0 THEN <<>> ELSE <<s>>)
    ELSE <<s % Base>> \o MulFrom(a, m, i + 1, DigitAt(a, i + 1) * m + s \div Base)

\* a * m, for 0 < m < 2^15
MulSmall(a, m) == MulFrom(a, m, 1, DigitAt(a, 1) * m)

RECURSIVE QuotFrom(_, _, _, _)
\* the digits i down to 1 of the quotient of a by d, n being the digit i with
\* the remainder left of the digits above it
QuotFrom(a, d, i, n) ==
    IF i = 0 THEN <<>>
    ELSE Append(QuotFrom(a, d, i - 1, (n % d) * Base + DigitAt(a, i - 1)), n \div d)

\* a \div d, for 0 < d < 2^15
DivSmall(a, d) == Norm(QuotFrom(a, d, Len(a), DigitAt(a, Len(a))))

\* a * 2^s
ShiftLeft(a, s) ==
    IF a = <<>> THEN <<>> ELSE [i \in 1..(s \div 15) |-> 0] \o MulSmall(a, 2^(s % 15))

\* a \div 2^s
ShiftRight(a, s) == DivSmall(SubSeq(a, (s \div 15) + 1, Len(a)), 2^(s % 15))

\* the number of bits of a
BitLen(a) ==
    IF a = <<>> THEN 0
    ELSE 15 * (Len(a) - 1) + (CHOOSE k \in 1..15 : a[Len(a)] \div 2^(k - 1) = 1)

IsOdd(a) == a # <<>> /\ a[1] % 2 = 1

RECURSIVE DigitsValue(_)
\* the value of a, for a below 2^31
DigitsValue(a) == IF a = <<>> THEN 0 ELSE a[1] + Base * DigitsValue(Tail(a))

\* the digits of n
ToDigits(n) == Norm(<<n % Base, (n \div Base) % Base, n \div (Base * Base)>>)

\* a / 2^s rounded to an integer, to nearest, ties to even: half is
\* a \div 2^(s-1), whole is a \div 2^s
RoundedShift(a, s, half, whole) ==
    IF IsOdd(half) /\ (IsOdd(whole) \/ ShiftLeft(half, s - 1) # a)
    THEN AddDigits(whole, <<1>>)
    ELSE whole

HalfShift(a, s, half) == RoundedShift(a, s, half, ShiftRight(half, 1))

RoundShift(a, s) == IF s <= 0 THEN ShiftLeft(a, -s) ELSE HalfShift(a, s, ShiftRight(a, s - 1))

\* an IEEE 754 double: (-1)^neg * man * 2^exp with man of 53 bits, or zero
\* with man empty and exp 0.  man of n bits is made one of 53 bits: shifted
\* up, or rounded to nearest, ties to even, which may carry into a 54th bit
Carried(neg, man, exp) ==
    IF BitLen(man) > 53 THEN [neg |-> neg, man |-> ShiftRight(man, 1), exp |-> exp + 1]
    ELSE [neg |-> neg, man |-> man, exp |-> exp]

Rounded53(neg, man, exp, n) ==
    IF n = 0 THEN [neg |-> neg, man |-> <<>>, exp |-> 0]
    ELSE Carried(neg, RoundShift(man, n - 53), exp + (n - 53))

\* man * 2^exp as a double
Round53(neg, man, exp) == Rounded53(neg, man, exp, BitLen(man))

\* x + y, a and b being the digits of x and of y at one exponent e: the sign
\* is that of the larger, a sum that cancels is +0.0
AddAligned(xneg, yneg, e, a, b) ==
    Round53(IF xneg = yneg THEN xneg
            ELSE IF a = b THEN FALSE
            ELSE IF LessDigits(a, b) THEN yneg ELSE xneg,
            IF xneg = yneg THEN AddDigits(a, b)
            ELSE SubDigits(IF LessDigits(a, b) THEN b ELSE a,
                           IF LessDigits(a, b) THEN a ELSE b),
            e)

AddAt(x, y, e) ==
    AddAligned(x.neg, y.neg, e, ShiftLeft(x.man, x.exp - e), ShiftLeft(y.man, y.exp - e))

\* x + y
fadd(x, y) == AddAt(x, y, IF x.exp < y.exp THEN x.exp ELSE y.exp)

fneg(x) == [x EXCEPT !.neg = ~x.neg]

\* x - y
fsub(x, y) == fadd(x, fneg(y))

\* round(x, 2) in hundredths: 100 * |x| rounded to an integer, ties to even
\* (the decimal the result prints), with the sign of x
Hundredths(x) ==
    [neg |-> x.neg, k |-> DigitsValue(RoundShift(MulSmall(x.man, 100), -x.exp))]

HexDigit(c) == CHOOSE d \in 0..15 : SubSeq("0123456789abcdef", d + 1, d + 1) = c

RECURSIVE FromHex(_, _, _)
\* the number the hexadecimal digits i.. of h continue, acc being the number
\* the digits before them write
FromHex(h, i, acc) ==
    IF i > Len(h) THEN acc
    ELSE FromHex(h, i + 1,
                 AddDigits(MulSmall(acc, 16), ToDigits(HexDigit(SubSeq(h, i, i)))))

\* the double float.hex() prints as 0x1.<13 digits>p<p>, given the 14 digits
FromFloatHex(neg, digits, p) == Round53(neg, FromHex(digits, 1, <<>>), p - 52)

\* the double nearest to num / den * 2^exp, quot being num \div den: one more
\* low bit tells whether a remainder is left
FromQuotient(neg, num, den, quot, exp) ==
    Round53(neg, AddDigits(MulSmall(quot, 2),
                           IF MulSmall(quot, den) = num THEN <<>> ELSE <<1>>), exp - 1)

FromShifted(neg, shifted, den) == FromQuotient(neg, shifted, den, DivSmall(shifted, den), -60)

\* the double nearest to n / den, for 0 < den < 2^15
FromRatio(n, den) == FromShifted(n < 0, ShiftLeft(ToDigits(IF n < 0 THEN -n ELSE n), 60), den)

----------------------------------------------------------------------------
(* Python values.                                                          *)

PStr(s) == [t |-> "str", v |-> s]

PInt(n) == [t |-> "int", v |-> n]

PFloat(c) == [t |-> "float", v |-> c]

PBool(b) == [t |-> "bool", v |-> b]

PNone == [t |-> "none", v |-> "None"]

PList(s) == [t |-> "list", v |-> s]

PDict(s) == [t |-> "dict", v |-> s]

EmptyDict == PDict(<<>>)

\* a float held exactly: the double and the decimal repr() prints for it (the
\* decimal is "" for a value that is computed and never printed)
PDouble(x, lit) == [t |-> "double", v |-> x, lit |-> lit]

\* the float -0.0
NegZero == [t |-> "float", v |-> 0, neg |-> TRUE]

IsNum(x) == x.t \in {"int", "float"}

\* the value of a number in hundredths
Cents(x) == IF x.t = "int" THEN 100 * x.v ELSE x.v

\* the double a number is, or is converted to
AsDouble(x) ==
    IF x.t = "double" THEN x.v
    ELSE IF x = NegZero THEN [neg |-> TRUE, man |-> <<>>, exp |-> 0]
    ELSE FromRatio(x.v, IF x.t = "int" THEN 1 ELSE 100)

AsDoubles(xs) == [i \in DOMAIN xs |-> AsDouble(xs[i])]

\* xs[1] + xs[2], xs[1] - xs[2] on doubles
FloatSum(xs) == fadd(xs[1], xs[2])

FloatDifference(xs) == fsub(xs[1], xs[2])

\* a + b, a - b on numbers: int with int stays int, anything else is a float;
\* floats held in whole hundredths are added as such, floats held exactly are
\* added as doubles
NumAdd(a, b) ==
    IF a.t = "int" /\ b.t = "int" THEN PInt(a.v + b.v)
    ELSE IF a.t = "double" \/ b.t = "double"
    THEN PDouble(FloatSum(AsDoubles(<<a, b>>)), "")
    ELSE PFloat(Cents(a) + Cents(b))

NumSub(a, b) ==
    IF a.t = "int" /\ b.t = "int" THEN PInt(a.v - b.v)
    ELSE IF a.t = "double" \/ b.t = "double"
    THEN PDouble(FloatDifference(AsDoubles(<<a, b>>)), "")
    ELSE PFloat(Cents(a) - Cents(b))

\* a < b on numbers
NumLess(a, b) == Cents(a) < Cents(b)

\* the float that prints as the hundredths h.k with the sign h.neg
FromRounded(h) ==
    IF h.k = 0 THEN (IF h.neg THEN NegZero ELSE PFloat(0))
    ELSE PFloat(IF h.neg THEN -h.k ELSE h.k)

\* round(x, 2): an amount held in whole hundredths stands, and the type is
\* kept (round of an int is an int); a float held exactly is rounded to the
\* nearest hundredth and keeps its sign, so that a negative value below half
\* a hundredth becomes -0.0
round2(x) == IF x.t = "double" THEN FromRounded(Hundredths(x.v)) ELSE x

\* k in d
Has(d, k) == \E i \in 1..Len(d.v) : d.v[i][1] = k

\* d[k], for k in d
Get(d, k) == d.v[CHOOSE i \in 1..Len(d.v) : d.v[i][1] = k][2]

\* d.get(k, default)
GetOr(d, k, default) == IF Has(d, k) THEN Get(d, k) ELSE default

\* d[k] = x: an existing key keeps its place, a new key goes last
Put(d, k, x) ==
    IF Has(d, k)
    THEN PDict([i \in 1..Len(d.v) |-> IF d.v[i][1] = k THEN <<k, x>> ELSE d.v[i]])
    ELSE PDict(Append(d.v, <<k, x>>))

RECURSIVE Update(_, _)
\* d.update(pairs)
Update(d, pairs) ==
    IF Len(pairs) = 0 THEN d
    ELSE Update(Put(d, Head(pairs)[1], Head(pairs)[2]), Tail(pairs))

\* the keys of d, in order
KeysOf(d) == [i \in 1..Len(d.v) |-> d.v[i][1]]

----------------------------------------------------------------------------
(* The world snapshot: users, orders, products.                            *)

PaymentMethodGift(id, balance) ==
    PDict(<< <<"source", PStr("gift_card")>>, <<"balance", balance>>, <<"id", PStr(id)>> >>)

PaymentMethodCard(id) ==
    PDict(<< <<"source", PStr("credit_card")>>, <<"brand", PStr("visa")>>,
             <<"id", PStr(id)>> >>)

User(first_name, last_name, zip, email, methods) ==
    PDict(<< <<"name", PDict(<< <<"first_name", PStr(first_name)>>,
                                <<"last_name", PStr(last_name)>> >>)>>,
             <<"address", PDict(<< <<"city", PStr("Austin")>>, <<"zip", PStr(zip)>> >>)>>,
             <<"email", PStr(email)>>,
             <<"payment_methods", PDict(methods)>> >>)

Item(item_id, product_id, price) ==
    PDict(<< <<"name", PStr("T-Shirt")>>, <<"product_id", PStr(product_id)>>,
             <<"item_id", PStr(item_id)>>, <<"price", PFloat(price)>> >>)

Payment(amount, payment_method_id) ==
    PDict(<< <<"transaction_type", PStr("payment")>>, <<"amount", PFloat(amount)>>,
             <<"payment_method_id", PStr(payment_method_id)>> >>)

Order(order_id, user_id, status, items, payments) ==
    PDict(<< <<"order_id", PStr(order_id)>>, <<"user_id", PStr(user_id)>>,
             <<"items", PList(items)>>, <<"status", PStr(status)>>,
             <<"payment_history", PList(payments)>> >>)

Variant(item_id, price, available) ==
    PDict(<< <<"item_id", PStr(item_id)>>, <<"available", PBool(available)>>,
             <<"price", PFloat(price)>> >>)

Product(product_id, variants) ==
    PDict(<< <<"name", PStr("T-Shirt")>>, <<"product_id", PStr(product_id)>>,
             <<"variants", PDict(variants)>> >>)

Users(balance) ==
    PDict(<<
        <<"u1", User("Ann", "Lee", "78701", "ann.lee@example.com",
                     << <<"gift_card_1", PaymentMethodGift("gift_card_1", balance)>>,
                        <<"credit_card_1", PaymentMethodCard("credit_card_1")>> >>)>>,
        <<"u2", User("Bob", "Ray", "10001", "bob.ray@example.com",
                     << <<"gift_card_2", PaymentMethodGift("gift_card_2", PFloat(500))>> >>)>>
    >>)

Products ==
    PDict(<<
        <<"P1", Product("P1", << <<"A", Variant("A", 2000, TRUE)>>,
                                 <<"B", Variant("B", 2500, TRUE)>>,
                                 <<"C", Variant("C", 1500, TRUE)>>,
                                 <<"D", Variant("D", 2200, FALSE)>> >>)>>,
        <<"P2", Product("P2", << <<"E", Variant("E", 800, TRUE)>>,
                                 <<"F", Variant("F", 900, TRUE)>> >>)>>
    >>)

\* #W001 holds item A twice, in the given status and with the given payments;
\* #W002 is delivered, holds A and E, and was paid by card and by gift card
Orders(status, payments) ==
    PDict(<<
        <<"#W001", Order("#W001", "u1", status,
                         <<Item("A", "P1", 2000), Item("A", "P1", 2000)>>, payments)>>,
        <<"#W002", Order("#W002", "u1", "delivered",
                         <<Item("A", "P1", 2000), Item("E", "P2", 800)>>,
                         <<Payment(1500, "credit_card_1"), Payment(500, "gift_card_1")>>)>>
    >>)

World(status, payments, balance) ==
    PDict(<< <<"users", Users(balance)>>, <<"orders", Orders(status, payments)>>,
             <<"products", Products>> >>)

\* the payment histories of #W001: one gift-card payment, a card and a gift-card
\* payment, one card payment
PaymentHistories ==
    { <<Payment(1000, "gift_card_1")>>,
      <<Payment(1500, "credit_card_1"), Payment(500, "gift_card_1")>>,
      <<Payment(2000, "credit_card_1")>> }

Worlds ==
    {World("pending", p, b) : p \in PaymentHistories, b \in {PFloat(0), PFloat(500)}}
    \cup {World("delivered", <<Payment(4000, "credit_card_1")>>, b) :
             b \in {PFloat(0), PFloat(500), PFloat(1000)}}
    \cup {World("processed", <<Payment(1000, "gift_card_1")>>, PFloat(1000))}

----------------------------------------------------------------------------
(* The action library (_logic.py).                                         *)

_get_users(d) == GetOr(d, "users", EmptyDict)

_get_orders(d) == GetOr(d, "orders", EmptyDict)

_get_products(d) == GetOr(d, "products", EmptyDict)

\* a normal return, and a raised exception: the state is left as it is then
Return(d, r) == [data |-> d, ret |-> r, exc |-> "none"]

Raise(d, e) == [data |-> d, ret |-> PNone, exc |-> e]

\* the (success, payload) pair the mutating helpers return
Failure(msg) == [t |-> "tuple", v |-> <<PBool(FALSE), PStr(msg)>>]

Success(order) == [t |-> "tuple", v |-> <<PBool(TRUE), order>>]

\* fault variant of Count: an element is counted once however often it occurs
CountOnce(xs, x) == IF \E i \in 1..Len(xs) : xs[i] = x THEN 1 ELSE 0

\* xs.count(x)
Count(xs, x) == Cardinality({i \in 1..Len(xs) : xs[i] = x})

\* a == b on Python values: numbers compare by value, the rest by content
PyEq(a, b) ==
    IF IsNum(a) /\ IsNum(b) THEN Cents(a) = Cents(b) ELSE a.t = b.t /\ a = b

\* bool(x)
Truthy(x) ==
    CASE x.t = "bool" -> x.v
      [] x.t = "none" -> FALSE
      [] x.t \in {"int", "float"} -> x.v # 0
      [] x.t = "str" -> Len(x.v) > 0
      [] OTHER -> Len(x.v) > 0

RECURSIVE PutPath(_, _, _)
\* d[path[1]][path[2]]... = x, every key but the last being present
PutPath(d, path, x) ==
    IF Len(path) = 1 THEN Put(d, path[1], x)
    ELSE Put(d, path[1], PutPath(Get(d, path[1]), Tail(path), x))

\* profile[outer][inner].lower() == arg.lower(): "yes", "no", or the exception
LowerMatch(profile, outer, inner, arg) ==
    IF ~Has(profile, outer) THEN "KeyError"
    ELSE IF ~Has(Get(profile, outer), inner) THEN "KeyError"
    ELSE IF Get(Get(profile, outer), inner).t # "str" THEN "AttributeError"
    ELSE IF arg.t # "str" THEN "AttributeError"
    ELSE IF Lower(Get(Get(profile, outer), inner).v) = Lower(arg.v) THEN "yes"
    ELSE "no"

\* the condition of lines 41-45 on one profile, evaluated left to right
NameZipMatch(profile, first_name, last_name, zip) ==
    LET m1 == LowerMatch(profile, "name", "first_name", first_name)
        m2 == LowerMatch(profile, "name", "last_name", last_name)
    IN  IF m1 # "yes" THEN m1
        ELSE IF m2 # "yes" THEN m2
        ELSE IF ~Has(profile, "address") THEN "KeyError"
        ELSE IF ~Has(Get(profile, "address"), "zip") THEN "KeyError"
        ELSE IF PyEq(Get(Get(profile, "address"), "zip"), zip) THEN "yes"
        ELSE "no"

RECURSIVE NameZipLoop(_, _, _, _, _, _)
NameZipLoop(d, users, i, first_name, last_name, zip) ==
    IF i > Len(users.v) THEN Return(d, PNone)
    ELSE LET m == NameZipMatch(users.v[i][2], first_name, last_name, zip)
         IN  IF m = "yes" THEN Return(d, PStr(users.v[i][1]))
             ELSE IF m = "no"
                  THEN NameZipLoop(d, users, i + 1, first_name, last_name, zip)
             ELSE Raise(d, m)

find_user_id_by_name_zip(d, first_name, last_name, zip) ==
    NameZipLoop(d, _get_users(d), 1, first_name, last_name, zip)

\* the condition of line 53 on one profile
EmailMatch(profile, email) ==
    IF ~Has(profile, "email") THEN "KeyError"
    ELSE IF Get(profile, "email").t # "str" THEN "AttributeError"
    ELSE IF email.t # "str" THEN "AttributeError"
    ELSE IF Lower(Get(profile, "email").v) = Lower(email.v) THEN "yes"
    ELSE "no"

RECURSIVE EmailLoop(_, _, _, _)
EmailLoop(d, users, i, email) ==
    IF i > Len(users.v) THEN Return(d, PNone)
    ELSE LET m == EmailMatch(users.v[i][2], email)
         IN  IF m = "yes" THEN Return(d, PStr(users.v[i][1]))
             ELSE IF m = "no" THEN EmailLoop(d, users, i + 1, email)
             ELSE Raise(d, m)

find_user_id_by_email(d, email) == EmailLoop(d, _get_users(d), 1, email)

get_order_details(d, order_id) == Return(d, GetOr(_get_orders(d), order_id.v, PNone))

get_user_details(d, user_id) == Return(d, GetOr(_get_users(d), user_id.v, PNone))

get_product_details(d, product_id) ==
    Return(d, GetOr(_get_products(d), product_id.v, PNone))

----------------------------------------------------------------------------
(* exchange_delivered_order_items (_logic.py 81-149).                      *)

\* fault variant of FirstIndex: the last index where flags holds
LastIndex(flags) ==
    IF \E i \in 1..Len(flags) : flags[i]
    THEN CHOOSE i \in 1..Len(flags) : flags[i] /\ \A j \in (i + 1)..Len(flags) : ~flags[j]
    ELSE 0

\* the first index at which the sequence of booleans holds TRUE, 0 when there
\* is none
FirstIndex(flags) ==
    IF \E i \in 1..Len(flags) : flags[i]
    THEN CHOOSE i \in 1..Len(flags) : flags[i] /\ \A j \in 1..(i - 1) : ~flags[j]
    ELSE 0

\* next(i for i in order["items"] if i["item_id"] == old_iid)
FirstItem(order, old_iid) ==
    LET items == Get(order, "items").v
    IN  items[FirstIndex([i \in 1..Len(items) |-> Get(items[i], "item_id") = old_iid])]

\* products.get(product_id, {}).get("variants", {})
VariantMap(products, product_id) ==
    GetOr(GetOr(products, product_id.v, EmptyDict), "variants", EmptyDict)

\* fault variant of BadPair: the availability of the variant is not looked at
BadPairMissingOnly(order, products, old_iid, new_iid) ==
    ~Has(VariantMap(products, Get(FirstItem(order, old_iid), "product_id")), new_iid.v)

\* line 123: the pair (old_iid, new_iid) names no available variant
BadPair(order, products, old_iid, new_iid) ==
    LET variant_map == VariantMap(products, Get(FirstItem(order, old_iid), "product_id"))
    IN  \/ ~Has(variant_map, new_iid.v)
        \/ ~Truthy(Get(Get(variant_map, new_iid.v), "available"))

RECURSIVE DiffPriceNew(_, _, _, _, _)
\* fault variant of DiffPrice: the price of the old item is not subtracted
DiffPriceNew(order, products, item_ids, new_item_ids, i) ==
    IF i = 0 THEN PFloat(0)
    ELSE LET old_item == FirstItem(order, item_ids[i])
             variant_map == VariantMap(products, Get(old_item, "product_id"))
         IN  NumAdd(DiffPriceNew(order, products, item_ids, new_item_ids, i - 1),
                    Get(Get(variant_map, new_item_ids[i].v), "price"))

RECURSIVE DiffPrice(_, _, _, _, _)
\* lines 118-125: diff_price after the pairs 1..i, none of them bad, each
\* difference added to the sum of those before it
DiffPrice(order, products, item_ids, new_item_ids, i) ==
    IF i = 0 THEN PFloat(0)
    ELSE LET old_item == FirstItem(order, item_ids[i])
             variant_map == VariantMap(products, Get(old_item, "product_id"))
             step_diff == NumSub(Get(Get(variant_map, new_item_ids[i].v), "price"),
                                 Get(old_item, "price"))
         IN  NumAdd(DiffPrice(order, products, item_ids, new_item_ids, i - 1), step_diff)

\* fault variant of InsufficientBalance: a balance equal to the difference is
\* refused
InsufficientBalanceLeq(pm, diff_price) ==
    Get(pm, "source") = PStr("gift_card") /\ ~NumLess(diff_price, Get(pm, "balance"))

\* line 135
InsufficientBalance(pm, diff_price) ==
    Get(pm, "source") = PStr("gift_card") /\ NumLess(Get(pm, "balance"), diff_price)

\* fault variant of ExchangeUpdate: the items exchanged are taken out of the
\* order as well
ExchangeUpdateItems(order, item_ids, new_item_ids, payment_method_id, diff_price) ==
    Update(order,
           << <<"status", PStr("exchange requested")>>,
              <<"items", PList(SelectSeq(Get(order, "items").v,
                                         LAMBDA it : \A j \in 1..Len(item_ids) :
                                                         item_ids[j] # Get(it, "item_id")))>>,
              <<"exchange_items", PList(item_ids)>>,
              <<"exchange_new_items", PList(new_item_ids)>>,
              <<"exchange_payment_method_id", payment_method_id>>,
              <<"exchange_price_difference", diff_price>> >>)

\* fault variant of ExchangeUpdate: the two lists are recorded as given
ExchangeUpdateUnsorted(order, item_ids, new_item_ids, payment_method_id, diff_price) ==
    Update(order,
           << <<"status", PStr("exchange requested")>>,
              <<"exchange_items", PList(item_ids)>>,
              <<"exchange_new_items", PList(new_item_ids)>>,
              <<"exchange_payment_method_id", payment_method_id>>,
              <<"exchange_price_difference", diff_price>> >>)

\* lines 139-147
ExchangeUpdate(order, item_ids, new_item_ids, payment_method_id, diff_price) ==
    Update(order,
           << <<"status", PStr("exchange requested")>>,
              <<"exchange_items",
                PList([i \in 1..Len(item_ids) |->
                          PStr(Sorted([j \in 1..Len(item_ids) |-> item_ids[j].v])[i])])>>,
              <<"exchange_new_items",
                PList([i \in 1..Len(new_item_ids) |->
                          PStr(Sorted([j \in 1..Len(new_item_ids) |-> new_item_ids[j].v])[i])])>>,
              <<"exchange_payment_method_id", payment_method_id>>,
              <<"exchange_price_difference", diff_price>> >>)

\* fault variants of ExchangeStatusGuard: no guard, and a guard that refuses
\* pending orders only
ExchangeGuardOff(order) == FALSE

ExchangeGuardPendingOnly(order) == Get(order, "status") = PStr("pending")

\* line 104; the message of line 105 is written here with the ASCII hyphen
\* where the source has U+2011
ExchangeStatusGuard(order) == Get(order, "status") # PStr("delivered")

exchange_delivered_order_items(d, order_id, item_ids, new_item_ids, payment_method_id) ==
    LET orders == _get_orders(d)
        users == _get_users(d)
        products == _get_products(d)
        olds == item_ids.v
        news == new_item_ids.v
    IN
    IF ~Has(orders, order_id.v) THEN Return(d, Failure("Error: order not found"))
    ELSE
    LET order == Get(orders, order_id.v)
        items == Get(order, "items").v
        original_item_ids == [i \in 1..Len(items) |-> Get(items[i], "item_id")]
        over == FirstIndex([i \in 1..Len(olds) |->
                               Count(olds, olds[i]) > Count(original_item_ids, olds[i])])
        bad == FirstIndex([i \in 1..Len(olds) |->
                              BadPair(order, products, olds[i], news[i])])
    IN
    IF ExchangeStatusGuard(order)
    THEN Return(d, Failure("Error: non-delivered order cannot be exchanged"))
    ELSE IF over # 0 THEN Return(d, Failure("Error: " \o olds[over].v \o " not found"))
    ELSE IF Len(olds) # Len(news)
    THEN Return(d, Failure("Error: the number of items to be exchanged should match"))
    ELSE IF bad # 0
    THEN Return(d, Failure("Error: new item " \o news[bad].v
                           \o " not found or available"))
    ELSE
    LET diff_price == round2(DiffPrice(order, products, olds, news, Len(olds)))
    IN
    IF ~Has(users, Get(order, "user_id").v) THEN Raise(d, "KeyError")
    ELSE
    LET user_payment_methods == Get(Get(users, Get(order, "user_id").v), "payment_methods")
    IN
    IF ~Has(user_payment_methods, payment_method_id.v)
    THEN Return(d, Failure("Error: payment method not found"))
    ELSE IF InsufficientBalance(Get(user_payment_methods, payment_method_id.v), diff_price)
    THEN Return(d, Failure(
             "Error: insufficient gift card balance to pay for the price difference"))
    ELSE
    LET updated == ExchangeUpdate(order, olds, news, payment_method_id, diff_price)
    IN  [data |-> PutPath(d, <<"orders", order_id.v>>, updated),
         ret |-> Success(updated), exc |-> "none"]

----------------------------------------------------------------------------
(* cancel_pending_order (_logic.py 152-193).                               *)

\* fault variant of AllowedReasons: a reason in another case is allowed too
AllowedReasonsAnyCase == {"no longer needed", "ordered by mistake", "No longer needed"}

AllowedReasons == {"no longer needed", "ordered by mistake"}

\* lines 175-179
Refund(payment) ==
    PDict(<< <<"transaction_type", PStr("refund")>>,
             <<"amount", Get(payment, "amount")>>,
             <<"payment_method_id", Get(payment, "payment_method_id")>> >>)

\* line 181
IsGiftCardPayment(payment_id) == Contains("gift_card", payment_id.v)

\* fault variant of CreditGiftCard: the refund is recorded, the card not credited
CreditSkipped(d, user_id, payment) == Return(d, PNone)

\* the balance of gift_card_2 of the user u2
BalanceOfCard2(d) ==
    Get(Get(Get(Get(Get(d, "users"), "u2"), "payment_methods"), "gift_card_2"), "balance")

\* fault variant of CreditGiftCard: the amount goes to the gift card of the
\* user u2
CreditOtherUser(d, user_id, payment) ==
    Return(PutPath(d, <<"users", "u2", "payment_methods", "gift_card_2", "balance">>,
                   NumAdd(BalanceOfCard2(d), Get(payment, "amount"))),
           PNone)

\* lines 182-186: the state after the credit, or the exception of the lookup
CreditGiftCard(d, user_id, payment) ==
    LET payment_id == Get(payment, "payment_method_id").v
        path == <<"users", user_id.v, "payment_methods", payment_id>>
    IN  IF ~Has(d, "users") THEN Raise(d, "KeyError")
        ELSE IF ~Has(Get(d, "users"), user_id.v) THEN Raise(d, "KeyError")
        ELSE IF ~Has(Get(Get(d, "users"), user_id.v), "payment_methods")
        THEN Raise(d, "KeyError")
        ELSE
        LET methods == Get(Get(Get(d, "users"), user_id.v), "payment_methods")
        IN  IF ~Has(methods, payment_id) THEN Raise(d, "KeyError")
            ELSE IF ~Has(Get(methods, payment_id), "balance") THEN Raise(d, "KeyError")
            ELSE Return(
                PutPath(d, path \o <<"balance">>,
                        round2(NumAdd(Get(Get(methods, payment_id), "balance"),
                                      Get(payment, "amount")))),
                PNone)

RECURSIVE RefundLoop(_, _, _, _)
\* lines 172-186 from payment i on: ret holds the refunds gathered
RefundLoop(d, order, i, refunds) ==
    LET payments == Get(order, "payment_history").v
    IN  IF i > Len(payments) THEN Return(d, PList(refunds))
        ELSE
        LET payment == payments[i]
            gathered == Append(refunds, Refund(payment))
        IN  IF IsGiftCardPayment(Get(payment, "payment_method_id"))
            THEN LET credited == CreditGiftCard(d, Get(order, "user_id"), payment)
                 IN  IF credited.exc # "none" THEN credited
                     ELSE RefundLoop(credited.data, order, i + 1, gathered)
            ELSE RefundLoop(d, order, i + 1, gathered)

\* fault variant of CancelUpdate: the refunds are put before the entries the
\* history holds
CancelUpdatePrepend(order, reason, refunds) ==
    Put(Put(Put(order, "status", PStr("cancelled")), "cancel_reason", reason),
        "payment_history", PList(refunds \o Get(order, "payment_history").v))

\* lines 189-191
CancelUpdate(order, reason, refunds) ==
    Put(Put(Put(order, "status", PStr("cancelled")), "cancel_reason", reason),
        "payment_history", PList(Get(order, "payment_history").v \o refunds))

\* fault variants of CancelStatusGuard: no guard, and a guard that refuses
\* cancelled orders only
CancelGuardOff(order) == FALSE

CancelGuardCancelledOnly(order) == Get(order, "status") = PStr("cancelled")

\* line 164
CancelStatusGuard(order) == Get(order, "status") # PStr("pending")

cancel_pending_order(d, order_id, reason) ==
    IF ~Has(d, "orders") THEN Raise(d, "KeyError")
    ELSE
    LET orders == Get(d, "orders")
    IN
    IF ~Has(orders, order_id.v) THEN Return(d, Failure("Error: order not found"))
    ELSE
    LET order == Get(orders, order_id.v)
    IN
    IF CancelStatusGuard(order)
    THEN Return(d, Failure("Error: non-pending order cannot be cancelled"))
    ELSE IF ~(reason.t = "str" /\ reason.v \in AllowedReasons)
    THEN Return(d, Failure("Error: invalid reason"))
    ELSE
    LET looped == RefundLoop(d, order, 1, <<>>)
    IN
    IF looped.exc # "none" THEN looped
    ELSE
    LET updated == CancelUpdate(order, reason, looped.ret.v)
    IN  [data |-> PutPath(looped.data, <<"orders", order_id.v>>, updated),
         ret |-> Success(updated), exc |-> "none"]

----------------------------------------------------------------------------
(* The dispatcher (tau_retail.py 30-44, _logic.py 199-206).                *)

\* the keys of ACTION_DISPATCH
ACTION_DISPATCH ==
    {"find_user_id_by_name_zip", "find_user_id_by_email", "get_order_details",
     "get_user_details", "get_product_details", "exchange_delivered_order_items"}

\* the functions of the action library
LibraryNames == ACTION_DISPATCH \cup {"cancel_pending_order"}

\* the keyword-only parameters of a library function
KeywordParams(name) ==
    CASE name = "find_user_id_by_name_zip" -> {"first_name", "last_name", "zip"}
      [] name = "find_user_id_by_email" -> {"email"}
      [] name = "get_order_details" -> {"order_id"}
      [] name = "get_user_details" -> {"user_id"}
      [] name = "get_product_details" -> {"product_id"}
      [] name = "exchange_delivered_order_items" ->
            {"order_id", "item_ids", "new_item_ids", "payment_method_id"}
      [] name = "cancel_pending_order" -> {"order_id", "reason"}

\* inspect.signature(func).parameters
SigParameters(name) == {"data"} \cup KeywordParams(name)

\* func(d, **kw), for kw holding exactly the keyword parameters of func
Invoke(name, d, kw) ==
    CASE name = "find_user_id_by_name_zip" ->
            find_user_id_by_name_zip(d, Get(kw, "first_name"), Get(kw, "last_name"),
                                     Get(kw, "zip"))
      [] name = "find_user_id_by_email" -> find_user_id_by_email(d, Get(kw, "email"))
      [] name = "get_order_details" -> get_order_details(d, Get(kw, "order_id"))
      [] name = "get_user_details" -> get_user_details(d, Get(kw, "user_id"))
      [] name = "get_product_details" -> get_product_details(d, Get(kw, "product_id"))
      [] name = "exchange_delivered_order_items" ->
            exchange_delivered_order_items(d, Get(kw, "order_id"), Get(kw, "item_ids"),
                                           Get(kw, "new_item_ids"),
                                           Get(kw, "payment_method_id"))
      [] name = "cancel_pending_order" ->
            cancel_pending_order(d, Get(kw, "order_id"), Get(kw, "reason"))

\* func(d, **kw): Python binds the keywords first (TypeError on a second value
\* for `data`, an unexpected keyword, or a missing keyword-only argument)
CallFunction(name, d, kw) ==
    LET given == {kw.v[i][1] : i \in 1..Len(kw.v)}
    IN  IF given # KeywordParams(name) THEN Raise(d, "TypeError")
        ELSE Invoke(name, d, kw)

\* {k: v for k, v in kwargs.items() if k in sig.parameters}
Accepted(name, kwargs) ==
    PDict(SelectSeq(kwargs.v, LAMBDA p : p[1] \in SigParameters(name)))

\* hash(x) is defined: ACTION_DISPATCH.get(x) raises TypeError otherwise
Hashable(x) == x.t \notin {"dict", "list", "set"}

\* fault variant of UnknownAction: a name without function is an error
UnknownActionRaises(d) == Raise(d, "KeyError")

\* func is None: return (lines 38-39)
UnknownAction(d) == Return(d, PNone)

\* step(action, raw_data): ret is None, data is raw_data after the call
step(action, d) ==
    IF d.t # "dict" THEN Return(d, PNone)
    ELSE IF ~Has(action, "name") THEN Raise(d, "KeyError")
    ELSE
    LET name == Get(action, "name")
        given == GetOr(action, "kwargs", EmptyDict)
        kwargs == IF Truthy(given) THEN given ELSE EmptyDict
    IN
    IF ~Hashable(name) THEN Raise(d, "TypeError")
    ELSE IF ~(name.t = "str" /\ name.v \in ACTION_DISPATCH) THEN UnknownAction(d)
    ELSE IF kwargs.t # "dict" THEN Raise(d, "AttributeError")
    ELSE
    LET called == CallFunction(name.v, d, Accepted(name.v, kwargs))
    IN  [data |-> called.data, ret |-> PNone, exc |-> called.exc]

----------------------------------------------------------------------------
(* The canonical hasher (tau_retail.py 15-28).                             *)

PTuple(s) == [t |-> "tuple", v |-> s]

\* fault variant of SortedPairs: the pairs are left in the order of the dict
SortedPairsOff(pairs) == pairs

RECURSIVE SortedPairs(_)
\* sorted(item.items()): the keys of a dict are distinct, so the key decides
SortedPairs(pairs) ==
    IF Len(pairs) = 0 THEN <<>>
    ELSE LET rest == SortedPairs(Tail(pairs))
             x == Head(pairs)
             n == Cardinality({i \in 1..Len(rest) : StrLess(rest[i][1], x[1])})
         IN  SubSeq(rest, 1, n) \o <<x>> \o SubSeq(rest, n + 1, Len(rest))

\* a set of str as the sequence sorted() makes of it
RECURSIVE SortedSet(_)
SortedSet(S) ==
    IF S = {} THEN <<>>
    ELSE LET least == CHOOSE x \in S : \A y \in S \ {x} : StrLess(x.v, y.v)
         IN  <<least>> \o SortedSet(S \ {least})

RECURSIVE to_hashable(_)
to_hashable(item) ==
    CASE item.t = "dict" ->
            LET pairs == SortedPairs(item.v)
            IN  PTuple([i \in 1..Len(pairs) |->
                          PTuple(<<PStr(pairs[i][1]), to_hashable(pairs[i][2])>>)])
      [] item.t = "list" -> PTuple([i \in 1..Len(item.v) |-> to_hashable(item.v[i])])
      [] item.t = "set" -> PTuple(SortedSet({to_hashable(e) : e \in item.v}))
      [] OTHER -> item

\* repr(x) of a float holding whole hundredths: 10.0, 10.5, 10.25, -5.0
FloatRepr(c) ==
    LET a == IF c < 0 THEN -c ELSE c
        frac == a % 100
    IN  (IF c < 0 THEN "-" ELSE "") \o ToString(a \div 100) \o "." \o
        (IF frac % 10 = 0 THEN ToString(frac \div 10)
         ELSE IF frac < 10 THEN "0" \o ToString(frac)
         ELSE ToString(frac))

RECURSIVE Join(_, _)
\* sep.join(parts)
Join(parts, sep) ==
    IF Len(parts) = 0 THEN ""
    ELSE IF Len(parts) = 1 THEN parts[1]
    ELSE parts[1] \o sep \o Join(Tail(parts), sep)

RECURSIVE Repr(_)
\* repr(x), which str(x) is on a tuple and its elements; the strings of the
\* model hold no quote and no backslash, so repr quotes them with '
Repr(x) ==
    CASE x.t = "tuple" ->
            LET parts == [i \in 1..Len(x.v) |-> Repr(x.v[i])]
            IN  IF Len(parts) = 1 THEN "(" \o parts[1] \o ",)"
                ELSE "(" \o Join(parts, ", ") \o ")"
      [] x.t = "str" -> "'" \o x.v \o "'"
      [] x.t = "int" -> ToString(x.v)
      [] x.t = "float" -> IF x = NegZero THEN "-0.0" ELSE FloatRepr(x.v)
      [] x.t = "double" -> x.lit
      [] x.t = "bool" -> IF x.v THEN "True" ELSE "False"
      [] x.t = "none" -> "None"

\* sha256(str(value)).hexdigest(): the digest is taken as injective, so the
\* text that is hashed stands for it
consistent_hash(value) == Repr(value)

\* get_data_hash (tau_retail.py 60-61)
get_data_hash(d) == consistent_hash(to_hashable(d))

----------------------------------------------------------------------------
(* The tool layer: the operations that mutate the trajectory's copy        *)
(* (exchange_delivered_order_items.py, cancel_pending_order.py).           *)

RECURSIVE json_dumps(_)
\* json.dumps(x); the strings of the model need no escape
json_dumps(x) ==
    CASE x.t = "dict" ->
            "{" \o Join([i \in 1..Len(x.v) |->
                            "\"" \o x.v[i][1] \o "\": " \o json_dumps(x.v[i][2])], ", ")
                \o "}"
      [] x.t = "list" -> "[" \o Join([i \in 1..Len(x.v) |-> json_dumps(x.v[i])], ", ") \o "]"
      [] x.t = "str" -> "\"" \o x.v \o "\""
      [] x.t = "int" -> ToString(x.v)
      [] x.t = "float" -> IF x = NegZero THEN "-0.0" ELSE FloatRepr(x.v)
      [] x.t = "double" -> x.lit
      [] x.t = "bool" -> IF x.v THEN "true" ELSE "false"
      [] x.t = "none" -> "null"

\* the (response, reward, metrics) triple execute returns
ToolResponse(text) == PTuple(<<PStr(text), PFloat(0), EmptyDict>>)

RECURSIVE ToolPairs(_, _, _, _, _, _)
\* exchange_delivered_order_items.py 136-148 over the pairs from index i on,
\* diff_price so far given: the sum, or the first new id that is refused, or
\* the KeyError of products[product_id]
ToolPairs(order, products, item_ids, new_item_ids, i, diff_price) ==
    IF i > Len(item_ids) THEN [exc |-> "none", refused |-> PNone, diff_price |-> diff_price]
    ELSE
    LET item == FirstItem(order, item_ids[i])
        product_id == Get(item, "product_id")
    IN
    IF ~Has(products, product_id.v) \/ ~Has(Get(products, product_id.v), "variants")
    THEN [exc |-> "KeyError", refused |-> PNone, diff_price |-> diff_price]
    ELSE
    LET variants == Get(Get(products, product_id.v), "variants")
    IN
    IF ~(/\ Has(variants, new_item_ids[i].v)
         /\ Truthy(Get(Get(variants, new_item_ids[i].v), "available")))
    THEN [exc |-> "none", refused |-> new_item_ids[i], diff_price |-> diff_price]
    ELSE ToolPairs(order, products, item_ids, new_item_ids, i + 1,
                   NumAdd(diff_price,
                          NumSub(Get(Get(variants, new_item_ids[i].v), "price"),
                                 Get(item, "price"))))

\* lines 152-172, the pairs gone through with the sum diff_price
ToolExchangePayment(d, order_id, order, olds, news, payment_method_id, diff_price) ==
    IF ~Has(Get(d, "users"), Get(order, "user_id").v) THEN Raise(d, "KeyError")
    ELSE
    LET methods == Get(Get(Get(d, "users"), Get(order, "user_id").v), "payment_methods")
    IN
    IF ~Has(methods, payment_method_id.v)
    THEN Return(d, ToolResponse("Error: payment method not found"))
    ELSE IF InsufficientBalance(Get(methods, payment_method_id.v), diff_price)
    THEN Return(d, ToolResponse(
             "Error: insufficient gift card balance to pay for the price difference"))
    ELSE
    LET updated == ExchangeUpdate(order, olds, news, payment_method_id, diff_price)
    IN  [data |-> PutPath(d, <<"orders", order_id.v>>, updated),
         ret |-> ToolResponse(json_dumps(updated)), exc |-> "none"]

\* lines 136-172, given what the loop over the pairs came to
ToolExchangePairs(d, order_id, order, olds, news, payment_method_id, pairs) ==
    IF pairs.exc # "none" THEN Raise(d, pairs.exc)
    ELSE IF pairs.refused # PNone
    THEN Return(d, ToolResponse("Error: new item " \o pairs.refused.v
                                \o " not found or available"))
    ELSE ToolExchangePayment(d, order_id, order, olds, news, payment_method_id,
                             round2(pairs.diff_price))

\* ExchangeDeliveredOrderItems.execute(parameters, data=d)
ExchangeDeliveredOrderItems_execute(d, parameters) ==
    IF ~Has(d, "products") \/ ~Has(d, "orders") \/ ~Has(d, "users") THEN Raise(d, "KeyError")
    ELSE
    LET orders == Get(d, "orders")
        order_id == GetOr(parameters, "order_id", PStr(""))
        olds == GetOr(parameters, "item_ids", PList(<<>>)).v
        news == GetOr(parameters, "new_item_ids", PList(<<>>)).v
        payment_method_id == GetOr(parameters, "payment_method_id", PStr(""))
    IN
    IF ~Has(orders, order_id.v) THEN Return(d, ToolResponse("Error: order not found"))
    ELSE
    LET order == Get(orders, order_id.v)
        items == Get(order, "items").v
        all_item_ids == [i \in 1..Len(items) |-> Get(items[i], "item_id")]
        over == FirstIndex([i \in 1..Len(olds) |->
                               Count(olds, olds[i]) > Count(all_item_ids, olds[i])])
    IN
    IF Get(order, "status") # PStr("delivered")
    THEN Return(d, ToolResponse("Error: non-delivered order cannot be exchanged"))
    ELSE IF over # 0 THEN Return(d, ToolResponse("Error: " \o olds[over].v \o " not found"))
    ELSE IF Len(olds) # Len(news)
    THEN Return(d, ToolResponse("Error: the number of items to be exchanged should match"))
    ELSE ToolExchangePairs(d, order_id, order, olds, news, payment_method_id,
                           ToolPairs(order, Get(d, "products"), olds, news, 1, PInt(0)))

\* lines 107-129 of cancel_pending_order.py, given what the refund loop came to
ToolCancelRefunded(order_id, order, reason, looped) ==
    IF looped.exc # "none" THEN looped
    ELSE [data |-> PutPath(looped.data, <<"orders", order_id.v>>,
                           CancelUpdate(order, reason, looped.ret.v)),
          ret |-> ToolResponse(json_dumps(CancelUpdate(order, reason, looped.ret.v))),
          exc |-> "none"]

\* CancelPendingOrder.execute(parameters, data=d)
CancelPendingOrder_execute(d, parameters) ==
    IF ~Has(d, "orders") THEN Raise(d, "KeyError")
    ELSE
    LET orders == Get(d, "orders")
        order_id == GetOr(parameters, "order_id", PStr(""))
        reason == GetOr(parameters, "reason", PStr(""))
    IN
    IF ~Has(orders, order_id.v) THEN Return(d, ToolResponse("Error: order not found"))
    ELSE IF Get(Get(orders, order_id.v), "status") # PStr("pending")
    THEN Return(d, ToolResponse("Error: non-pending order cannot be cancelled"))
    ELSE IF ~(reason.t = "str" /\ reason.v \in AllowedReasons)
    THEN Return(d, ToolResponse("Error: invalid reason"))
    ELSE ToolCancelRefunded(order_id, Get(orders, order_id.v), reason,
                            RefundLoop(d, Get(orders, order_id.v), 1, <<>>))

\* the execute of the tool whose schema is called name
ToolExecute(name, d, parameters) ==
    CASE name = "exchange_delivered_order_items" ->
            ExchangeDeliveredOrderItems_execute(d, parameters)
      [] name = "cancel_pending_order" -> CancelPendingOrder_execute(d, parameters)

----------------------------------------------------------------------------

(* The equivalence scorer (tau_retail.py 47-92).                           *)

RESPOND_ACTION_NAME == "respond"

JsonOrderBlob == "{\"order_id\": \"#W001\"}"

\* json.loads(s) on the texts the model's ground truths carry; any other text
\* of the model is no JSON and raises JSONDecodeError
json_loads(s) ==
    CASE s = JsonOrderBlob ->
            [ok |-> TRUE, value |-> PDict(<< <<"order_id", PStr("#W001")>> >>)]
      [] s = "{}" -> [ok |-> TRUE, value |-> EmptyDict]
      [] OTHER -> [ok |-> FALSE, value |-> PNone]

\* lines 69-75 on one entry: {**act, "kwargs": kwargs}
DecodeEntry(act) ==
    LET kwargs == GetOr(act, "kwargs", EmptyDict)
    IN  Put(act, "kwargs",
            IF kwargs.t = "str"
            THEN IF json_loads(kwargs.v).ok THEN json_loads(kwargs.v).value ELSE EmptyDict
            ELSE kwargs)

\* line 77
NotRespond(action) == GetOr(action, "name", PNone) # PStr(RESPOND_ACTION_NAME)

RECURSIVE Replay(_, _, _)
\* lines 79-81 from action i on: an exception of step ends the loop
Replay(actions, i, d) ==
    IF i > Len(actions) THEN Return(d, PNone)
    ELSE LET stepped == step(actions[i], d)
         IN  IF stepped.exc # "none" THEN stepped
             ELSE Replay(actions, i + 1, stepped.data)

\* fault variant of ReplayActions: the first respond entry ends the list
ReplayActionsUntilRespond(ground_truth) ==
    LET decoded == [i \in 1..Len(ground_truth.v) |-> DecodeEntry(ground_truth.v[i])]
        r == FirstIndex([i \in 1..Len(decoded) |-> ~NotRespond(decoded[i])])
    IN  IF r = 0 THEN decoded ELSE SubSeq(decoded, 1, r - 1)

\* lines 68-77: the decoded entries that are not the respond marker
ReplayActions(ground_truth) ==
    SelectSeq([i \in 1..Len(ground_truth.v) |-> DecodeEntry(ground_truth.v[i])],
              NotRespond)

\* fault variant of Reward: the reward does not depend on the hashes
RewardAlways(data_hash, replayed) == PFloat(100)

\* fault variant of Reward: the comparison is negated
RewardNegated(data_hash, replayed) ==
    IF data_hash # get_data_hash(replayed.data) THEN PFloat(100) ELSE PFloat(0)

\* lines 82-92, given the hash of data and the outcome of the replay loop
Reward(data_hash, replayed) ==
    IF data_hash = get_data_hash(replayed.data) THEN PFloat(100) ELSE PFloat(0)

\* an object of the Python heap: its identity and the value it holds
Obj(id, v) == [id |-> id, v |-> v]

\* fault variant of deepcopy: the object itself is handed on
SameObject(x) == x

\* copy.deepcopy(x): a new object holding the value of x
deepcopy(x) == Obj("copy of " \o x.id, x.v)

\* the value the object x holds once the replay loop has run on the object
\* scratch: step mutates the object it is given, in place, and no other
After(x, scratch, replayed) == IF scratch.id = x.id THEN replayed.data ELSE x.v

\* what the call leaves: the reward or the exception, and the values the two
\* argument objects hold afterwards
ScoreOutcome(data_hash, replayed, data_obj, raw_obj, raw_data_copy) ==
    [reward |-> IF replayed.exc # "none" THEN PNone ELSE Reward(data_hash, replayed),
     exc |-> replayed.exc,
     data |-> After(data_obj, raw_data_copy, replayed),
     raw_data |-> After(raw_obj, raw_data_copy, replayed)]

\* lines 63-92: the hash of a copy of data, the replay on raw_data_copy
ReplayOn(ground_truth, data_obj, raw_obj, raw_data_copy) ==
    ScoreOutcome(get_data_hash(deepcopy(data_obj).v),
                 Replay(ReplayActions(ground_truth), 1, raw_data_copy.v),
                 data_obj, raw_obj, raw_data_copy)

\* compute_score(ground_truth=..., data=d, raw_data=raw)
compute_score(ground_truth, d, raw) ==
    ReplayOn(ground_truth, Obj("data", d), Obj("raw_data", raw),
             deepcopy(Obj("raw_data", raw)))

----------------------------------------------------------------------------
(* The reward manager (tau_retail_reward_manager.py 17-28).                *)

\* the parameters compute_score declares (tau_retail.py 47-55), and those of
\* them that have no default
ScoreParameters ==
    {"solution_str", "ground_truth", "method", "format_score", "score", "data",
     "raw_data"}

ScoreRequired == {"solution_str", "ground_truth"}

\* the keywords of the call of lines 19-27
ManagerKeywords ==
    {"actions", "ground_truth", "data", "raw_data", "method", "format_score", "score"}

\* Python binds a call by keywords: every keyword is a declared parameter and
\* every parameter without default is given; TypeError otherwise
Binds(keywords, parameters, required) ==
    keywords \subseteq parameters /\ required \subseteq keywords

\* extra_info.get(k)
InfoGet(extra_info, k) == GetOr(extra_info, k, PNone)

\* what a call of the manager leaves: the value returned or the exception, and
\* the values the objects extra_info["data"] and extra_info["raw_data"] hold
ManagerOutcome(ret, exc, d, raw) == [ret |-> ret, exc |-> exc, data |-> d, raw_data |-> raw]

\* what the manager returns of a call of compute_score that was bound
ScoreReturned(scored) ==
    ManagerOutcome(scored.reward, scored.exc, scored.data, scored.raw_data)

\* lines 19-27: the call is bound first, and the body of compute_score runs
\* only if it binds
CallComputeScore(keywords, ground_truth, d, raw) ==
    IF ~Binds(keywords, ScoreParameters, ScoreRequired)
    THEN ManagerOutcome(PNone, "TypeError", d, raw)
    ELSE ScoreReturned(compute_score(ground_truth, d, raw))

\* line 28: the score function of NaiveRewardManager, which is no part of
\* this model; the call is left as handed over
SuperComputeScore(d, raw) == ManagerOutcome(PStr("super().compute_score"), "none", d, raw)

\* TauRetailRewardManager.compute_score(data_source, solution_str,
\* ground_truth, extra_info)
TauRetailRewardManager_compute_score(data_source, solution_str, ground_truth, extra_info) ==
    IF data_source = "tau_retail"
    THEN CallComputeScore(ManagerKeywords, ground_truth,
                          InfoGet(extra_info, "data"), InfoGet(extra_info, "raw_data"))
    ELSE SuperComputeScore(InfoGet(extra_info, "data"), InfoGet(extra_info, "raw_data"))

----------------------------------------------------------------------------
(* The calls the model makes.                                              *)

Entry(name, kwargs) == PDict(<< <<"name", PStr(name)>>, <<"kwargs", kwargs>> >>)

StrList(xs) == PList([i \in 1..Len(xs) |-> PStr(xs[i])])

ExchangeEntry(order_id, item_ids, new_item_ids, payment_method_id) ==
    Entry("exchange_delivered_order_items",
          PDict(<< <<"order_id", PStr(order_id)>>, <<"item_ids", StrList(item_ids)>>,
                   <<"new_item_ids", StrList(new_item_ids)>>,
                   <<"payment_method_id", PStr(payment_method_id)>> >>))

CancelEntry(order_id, reason) ==
    Entry("cancel_pending_order",
          PDict(<< <<"order_id", PStr(order_id)>>, <<"reason", PStr(reason)>> >>))

LookupEntry(name, key, value) == Entry(name, PDict(<< <<key, PStr(value)>> >>))

NameZipEntry(first_name, last_name, zip) ==
    Entry("find_user_id_by_name_zip",
          PDict(<< <<"first_name", PStr(first_name)>>, <<"last_name", PStr(last_name)>>,
                   <<"zip", PStr(zip)>> >>))

Reasons == {"no longer needed", "ordered by mistake", "changed my mind"}

\* exchanges asked of an order: a dearer variant by gift card, by card and by a
\* method of another user, a cheaper variant, an unavailable one, one of
\* another product, a repeated item, unequal lengths, an item the order does
\* not hold, two items in either order, and no item at all
ExchangesOf(order_id) ==
    { ExchangeEntry(order_id, <<"A">>, <<"B">>, "gift_card_1"),
      ExchangeEntry(order_id, <<"A">>, <<"B">>, "credit_card_1"),
      ExchangeEntry(order_id, <<"A">>, <<"B">>, "gift_card_2"),
      ExchangeEntry(order_id, <<"A">>, <<"C">>, "gift_card_1"),
      ExchangeEntry(order_id, <<"A">>, <<"D">>, "gift_card_1"),
      ExchangeEntry(order_id, <<"A">>, <<"F">>, "gift_card_1"),
      ExchangeEntry(order_id, <<"A", "A">>, <<"B", "C">>, "credit_card_1"),
      ExchangeEntry(order_id, <<"A">>, <<"B", "C">>, "gift_card_1"),
      ExchangeEntry(order_id, <<"Z">>, <<"B">>, "gift_card_1"),
      ExchangeEntry(order_id, <<"A", "E">>, <<"C", "F">>, "credit_card_1"),
      ExchangeEntry(order_id, <<"E", "A">>, <<"F", "C">>, "credit_card_1"),
      ExchangeEntry(order_id, <<>>, <<>>, "gift_card_1") }

ExchangeCalls ==
    ExchangesOf("#W001") \cup ExchangesOf("#W002")
    \cup {ExchangeEntry("#W404", <<"A">>, <<"B">>, "gift_card_1")}

CancelCalls == {CancelEntry(o, r) : o \in {"#W001", "#W002", "#W404"}, r \in Reasons}

LookupCalls ==
    { NameZipEntry("ann", "LEE", "78701"),
      LookupEntry("find_user_id_by_email", "email", "Bob.Ray@Example.com"),
      LookupEntry("get_order_details", "order_id", "#W001"),
      LookupEntry("get_user_details", "user_id", "u404"),
      LookupEntry("get_product_details", "product_id", "P1") }

\* ground-truth entries: the two mutating actions, an exchange naming absent
\* ids, the respond marker, an unknown action, an entry with no name, one with
\* no kwargs, and kwargs given as a text that decodes or does not
GTEntries ==
    { CancelEntry("#W001", "no longer needed"),
      ExchangeEntry("#W002", <<"A">>, <<"C">>, "gift_card_1"),
      ExchangeEntry("#W404", <<"A">>, <<"B">>, "gift_card_404"),
      Entry("respond", PDict(<< <<"content", PStr("done")>> >>)),
      Entry("transfer_to_human_agents", PDict(<< <<"summary", PStr("help")>> >>)),
      PDict(<< <<"kwargs", PDict(<< <<"order_id", PStr("#W001")>> >>)>> >>),
      PDict(<< <<"name", PStr("get_product_details")>> >>),
      Entry("get_order_details", PStr(JsonOrderBlob)),
      Entry("get_user_details", PStr("{user_id: u1")) }

\* the longest ground truth
MaxGT == 2

RECURSIVE ListsUpTo(_, _)
\* the lists of at most n elements of S
ListsUpTo(S, n) ==
    IF n = 0 THEN {<<>>}
    ELSE LET shorter == ListsUpTo(S, n - 1)
         IN  shorter \cup {Append(l, e) : l \in shorter, e \in S}

GTLists == ListsUpTo(GTEntries, MaxGT)

NoCall == [via |-> "none", action |-> PNone, ret |-> PNone, exc |-> "none"]

\* no scoring call in progress
NoCalls == <<>>

----------------------------------------------------------------------------
(* Spec: one world, mutated by calls of the action library and by the      *)
(* dispatcher.                                                             *)

Init ==
    /\ raw_data \in Worlds
    /\ data = raw_data
    /\ last = NoCall
    /\ gt = PList(<<>>)
    /\ calls = NoCalls

\* a function of the action library called on the working copy
Call(action) ==
    LET called == CallFunction(Get(action, "name").v, data, Get(action, "kwargs"))
    IN  /\ data' = called.data
        /\ last' = [via |-> "library", action |-> action,
                    ret |-> called.ret, exc |-> called.exc]
        /\ UNCHANGED <<raw_data, gt, calls>>

Lookup(action) == Call(action)

Exchange(action) == Call(action)

Cancel(action) == Call(action)

\* step(action, data)
Dispatch(action) ==
    LET stepped == step(action, data)
    IN  /\ data' = stepped.data
        /\ last' = [via |-> "step", action |-> action,
                    ret |-> stepped.ret, exc |-> stepped.exc]
        /\ UNCHANGED <<raw_data, gt, calls>>

\* entry with the key k added to its kwargs
WithExtra(entry, k, x) == Put(entry, "kwargs", Put(Get(entry, "kwargs"), k, x))

\* the entries the dispatcher is given under Spec: names in and out of the
\* table, kwargs of any type, kwargs with keys the function does not take
DispatchEntries ==
    { CancelEntry("#W001", "no longer needed"),
      ExchangeEntry("#W002", <<"A">>, <<"C">>, "gift_card_1"),
      Entry("transfer_to_human_agents", PDict(<< <<"summary", PStr("help")>> >>)),
      Entry("transfer_to_human_agents", PStr("help")),
      Entry("think", StrList(<<"help">>)),
      PDict(<< <<"name", PStr("think")>> >>),
      PDict(<< <<"name", PNone>>, <<"kwargs", EmptyDict>> >>),
      PDict(<< <<"name", StrList(<<"think">>)>>, <<"kwargs", EmptyDict>> >>),
      WithExtra(ExchangeEntry("#W002", <<"A">>, <<"C">>, "gift_card_1"),
                "note", PStr("help")),
      WithExtra(ExchangeEntry("#W002", <<"A">>, <<"C">>, "gift_card_1"),
                "data", EmptyDict),
      WithExtra(LookupEntry("get_order_details", "order_id", "#W001"), "id", PInt(1)),
      PDict(<< <<"name", PStr("get_product_details")>> >>),
      PDict(<< <<"kwargs", PDict(<< <<"order_id", PStr("#W001")>> >>)>> >>) }

Next ==
    \/ \E action \in LookupCalls : Lookup(action)
    \/ \E action \in ExchangeCalls : Exchange(action)
    \/ \E action \in CancelCalls : Cancel(action)
    \/ \E action \in DispatchEntries : Dispatch(action)

Spec == Init /\ [][Next]_vars

----------------------------------------------------------------------------
(* ScoreSpec: an instance with its ground truth; the tool calls of the     *)
(* trajectory mutate data, and compute_score compares it with the replay   *)
(* of the ground truth on raw_data.                                        *)

ScoreWorlds ==
    {World("pending", <<Payment(1000, "gift_card_1")>>, b) : b \in {PFloat(0), PFloat(1000)}}

TrajectoryCalls ==
    { CancelEntry("#W001", "no longer needed"),
      ExchangeEntry("#W002", <<"A">>, <<"C">>, "gift_card_1"),
      ExchangeEntry("#W002", <<"A">>, <<"B">>, "credit_card_1"),
      LookupEntry("get_order_details", "order_id", "#W001") }

ScoreInit ==
    /\ raw_data \in ScoreWorlds
    /\ data = raw_data
    /\ last = NoCall
    /\ gt \in {PList(entries) : entries \in GTLists}
    /\ calls = NoCalls

\* a tool call of the trajectory
Act(action) == Call(action)

\* the call compute_score(ground_truth=gt, data=data, raw_data=raw_data) ends
\* with the outcome scored
Scored(scored) ==
    /\ last' = [via |-> "compute_score", action |-> gt,
                ret |-> scored.reward, exc |-> scored.exc]
    /\ data' = scored.data
    /\ raw_data' = scored.raw_data
    /\ UNCHANGED <<gt, calls>>

\* calculate_score
Score == Scored(compute_score(gt, data, raw_data))

ScoreNext ==
    \/ \E action \in TrajectoryCalls : Act(action)
    \/ Score

ScoreSpec == ScoreInit /\ [][ScoreNext]_vars

----------------------------------------------------------------------------
(* EdgeSpec: the action library called on snapshots that lack a top-level  *)
(* key or hold an irregular user profile, with arguments of any type.      *)

\* d without the key k
Without(d, k) == PDict(SelectSeq(d.v, LAMBDA p : p[1] # k))

TopLevelKeys == {"users", "orders", "products"}

\* #W001 pending and paid by gift card; #W001 delivered
EdgeBases ==
    { World("pending", <<Payment(1000, "gift_card_1")>>, PFloat(0)),
      World("delivered", <<Payment(4000, "credit_card_1")>>, PFloat(1000)) }

\* profiles of u1 as a loader may deliver them: the zip stored as a number, the
\* zip stored with blanks around it, a first name that is None, no name at
\* all, no email
IrregularProfiles(world) ==
    { PutPath(world, <<"users", "u1", "address", "zip">>, PInt(78701)),
      PutPath(world, <<"users", "u1", "address", "zip">>, PStr(" 78701 ")),
      PutPath(world, <<"users", "u1", "name", "first_name">>, PNone),
      PutPath(world, <<"users", "u1">>, Without(Get(Get(world, "users"), "u1"), "name")),
      PutPath(world, <<"users", "u1">>, Without(Get(Get(world, "users"), "u1"), "email")) }

EdgeWorlds ==
    EdgeBases
    \cup {Without(world, k) : world \in EdgeBases, k \in TopLevelKeys}
    \cup UNION {IrregularProfiles(world) : world \in EdgeBases}

\* find_user_id_by_name_zip with arguments of any type
NameZipCall(first_name, last_name, zip) ==
    Entry("find_user_id_by_name_zip",
          PDict(<< <<"first_name", first_name>>, <<"last_name", last_name>>,
                   <<"zip", zip>> >>))

\* names in another case, a zip with blanks around it, a zip given as a number,
\* names given as None or as the empty text, and a user there is none of
NameZipCalls ==
    { NameZipCall(PStr("ann"), PStr("LEE"), PStr("78701")),
      NameZipCall(PStr("Ann"), PStr("Lee"), PStr(" 78701 ")),
      NameZipCall(PStr("Ann"), PStr("Lee"), PInt(78701)),
      NameZipCall(PStr("Ann"), PStr("Lee"), PStr("10001")),
      NameZipCall(PStr("BOB"), PStr("ray"), PStr("10001")),
      NameZipCall(PNone, PStr("Lee"), PStr("78701")),
      NameZipCall(PStr(""), PStr("Lee"), PStr("78701")),
      NameZipCall(PStr(""), PStr(""), PStr("78701")),
      NameZipCall(PStr("Zed"), PStr("Lee"), PStr("78701")) }

EdgeLookupCalls ==
    NameZipCalls
    \cup { Entry("find_user_id_by_email", PDict(<< <<"email", e>> >>)) :
             e \in {PStr("Bob.Ray@Example.com"), PStr("ann.lee@example.com"),
                    PStr("nobody@example.com"), PNone} }
    \cup { LookupEntry("get_order_details", "order_id", o) : o \in {"#W001", "#W404"} }
    \cup { LookupEntry("get_user_details", "user_id", u) : u \in {"u1", "u404"} }
    \cup { LookupEntry("get_product_details", "product_id", p) : p \in {"P1", "P404"} }

EdgeExchangeCalls ==
    { ExchangeEntry("#W001", <<"A">>, <<"B">>, "gift_card_1"),
      ExchangeEntry("#W002", <<"A">>, <<"C">>, "credit_card_1"),
      ExchangeEntry("#W404", <<"A">>, <<"B">>, "gift_card_1") }

EdgeCancelCalls ==
    { CancelEntry("#W001", "no longer needed"),
      CancelEntry("#W002", "ordered by mistake"),
      CancelEntry("#W404", "no longer needed") }

EdgeInit ==
    /\ raw_data \in EdgeWorlds
    /\ data = raw_data
    /\ last = NoCall
    /\ gt = PList(<<>>)
    /\ calls = NoCalls

EdgeNext ==
    \/ \E action \in EdgeLookupCalls : Lookup(action)
    \/ \E action \in EdgeExchangeCalls : Exchange(action)
    \/ \E action \in EdgeCancelCalls : Cancel(action)

EdgeSpec == EdgeInit /\ [][EdgeNext]_vars

----------------------------------------------------------------------------

(* FingerprintSpec: an observed state that is the snapshot with its        *)
(* mappings or sequences re-ordered, or with one field changed; the two    *)
(* are fingerprinted, and scored against an empty ground truth.            *)

Reverse(xs) == [i \in 1..Len(xs) |-> xs[Len(xs) + 1 - i]]

RECURSIVE ReverseKeys(_)
\* x with the keys of every mapping, at every depth, in the opposite order
ReverseKeys(x) ==
    CASE x.t = "dict" ->
            PDict(Reverse([i \in 1..Len(x.v) |-> <<x.v[i][1], ReverseKeys(x.v[i][2])>>]))
      [] x.t = "list" -> PList([i \in 1..Len(x.v) |-> ReverseKeys(x.v[i])])
      [] OTHER -> x

\* the refund of a payment of 10.00 made with gift_card_1
RefundOf1000 == Refund(Payment(1000, "gift_card_1"))

\* observed states: the snapshot itself; its keys re-ordered at the top, in
\* one order, at every depth; the items or the payments of #W002 re-ordered;
\* one status changed; a field added; a balance changed; a payment entry
\* appended
Observed(world) ==
    LET order == Get(Get(world, "orders"), "#W002")
    IN  { world,
          PDict(Reverse(world.v)),
          PutPath(world, <<"orders", "#W002">>, PDict(Reverse(order.v))),
          ReverseKeys(world),
          PutPath(world, <<"orders", "#W002", "items">>,
                  PList(Reverse(Get(order, "items").v))),
          PutPath(world, <<"orders", "#W002", "payment_history">>,
                  PList(Reverse(Get(order, "payment_history").v))),
          PutPath(world, <<"orders", "#W002", "status">>, PStr("exchange requested")),
          PutPath(world, <<"orders", "#W002", "cancel_reason">>, PStr("no longer needed")),
          PutPath(world, <<"users", "u1", "payment_methods", "gift_card_1", "balance">>,
                  NumAdd(Get(Get(Get(Get(Get(world, "users"), "u1"), "payment_methods"),
                                 "gift_card_1"), "balance"), PFloat(1000))),
          PutPath(world, <<"orders", "#W002", "payment_history">>,
                  PList(Append(Get(order, "payment_history").v, RefundOf1000))) }

FingerprintInit ==
    /\ raw_data \in Worlds
    /\ data \in Observed(raw_data)
    /\ last = NoCall
    /\ gt = PList(<<>>)
    /\ calls = NoCalls

\* get_data_hash of the snapshot and of the observed state
Fingerprint ==
    /\ last' = [via |-> "get_data_hash", action |-> PNone,
                ret |-> PTuple(<<PStr(get_data_hash(raw_data)), PStr(get_data_hash(data))>>),
                exc |-> "none"]
    /\ UNCHANGED <<raw_data, data, gt, calls>>

FingerprintNext == Fingerprint \/ Score

FingerprintSpec == FingerprintInit /\ [][FingerprintNext]_vars

----------------------------------------------------------------------------
(* ShapeSpec: two nested values and the canonical forms to_hashable gives  *)
(* them; raw_data holds one value, data the other.                         *)

PSet(S) == [t |-> "set", v |-> S]

Scalars == {PStr("a"), PStr("b"), PInt(1), PFloat(100), PBool(TRUE), PNone}

\* values of one level: the scalars, the empty containers, the lists of one
\* scalar, and the two strings as a list in either order and as a set
Flat ==
    Scalars \cup {PList(<<>>), EmptyDict, PSet({})}
            \cup {PList(<<x>>) : x \in Scalars}
            \cup {PList(<<PStr("a"), PStr("b")>>), PList(<<PStr("b"), PStr("a")>>),
                  PSet({PStr("a"), PStr("b")})}

\* values of two levels: a mapping of one key and the list of its one
\* [key, value] pair, and a mapping of two keys in either order
Shapes ==
    Flat \cup {PDict(<<<<"a", x>>>>) : x \in Flat}
         \cup {PList(<<PList(<<PStr("a"), x>>)>>) : x \in Flat}
         \cup {PDict(<<<<"a", PInt(1)>>, <<"b", x>>>>) : x \in Scalars}
         \cup {PDict(<<<<"b", x>>, <<"a", PInt(1)>>>>) : x \in Scalars}

ShapeInit ==
    /\ raw_data \in Shapes
    /\ data \in Shapes
    /\ last = NoCall
    /\ gt = PList(<<>>)
    /\ calls = NoCalls

\* consistent_hash(to_hashable(item)) of the two values
Canonical ==
    /\ last' = [via |-> "to_hashable", action |-> PNone,
                ret |-> PTuple(<<PStr(consistent_hash(to_hashable(raw_data))),
                                 PStr(consistent_hash(to_hashable(data)))>>),
                exc |-> "none"]
    /\ UNCHANGED <<raw_data, data, gt, calls>>

ShapeNext == Canonical

ShapeSpec == ShapeInit /\ [][ShapeNext]_vars

----------------------------------------------------------------------------

(* ConcSpec: two scoring calls given the same data and raw_data objects,   *)
(* their statements interleaved in any order.                              *)

Callers == {"c1", "c2"}

\* the ground truths of the concurrent calls: empty, one exchange, a lookup
\* and another exchange, an entry without name (step raises)
ConcurrentGroundTruths ==
    { <<>>,
      <<ExchangeEntry("#W002", <<"A">>, <<"C">>, "gift_card_1")>>,
      <<LookupEntry("get_order_details", "order_id", "#W001"),
        ExchangeEntry("#W002", <<"A">>, <<"B">>, "credit_card_1")>>,
      <<PDict(<< <<"kwargs", EmptyDict>> >>)>> }

\* the frame of compute_score(ground_truth=..., data=data, raw_data=raw_data)
\* on entry
Entered(ground_truth) ==
    [pc |-> "entered", ground_truth |-> ground_truth, data_hash |-> "",
     raw_data_copy |-> Obj("none", PNone), actions |-> <<>>,
     reward |-> PNone, exc |-> "none"]

\* the state a trajectory that made the exchange A -> C has left
Exchanged(world) ==
    CallFunction("exchange_delivered_order_items", world,
                 Get(ExchangeEntry("#W002", <<"A">>, <<"C">>, "gift_card_1"), "kwargs")).data

ConcInit ==
    /\ raw_data \in ScoreWorlds
    /\ data \in {raw_data, Exchanged(raw_data)}
    /\ last = NoCall
    /\ gt = PList(<<>>)
    /\ calls \in [Callers -> {Entered(PList(g)) : g \in ConcurrentGroundTruths}]

\* the value of the object call holds as raw_data_copy: the shared object
\* raw_data if the two are one object, its own copy otherwise
Held(call, raw) == IF call.raw_data_copy.id = "raw_data" THEN raw ELSE call.raw_data_copy.v

\* line 63
TakeHash(c) ==
    /\ calls[c].pc = "entered"
    /\ calls' = [calls EXCEPT ![c].pc = "hashed",
                              ![c].data_hash = get_data_hash(deepcopy(Obj("data", data)).v)]
    /\ UNCHANGED <<raw_data, data, last, gt>>

\* lines 64-77
TakeCopy(c) ==
    /\ calls[c].pc = "hashed"
    /\ calls' = [calls EXCEPT ![c].pc = "replaying",
                              ![c].raw_data_copy = deepcopy(Obj("raw_data", raw_data)),
                              ![c].actions = ReplayActions(calls[c].ground_truth)]
    /\ UNCHANGED <<raw_data, data, last, gt>>

\* step has run on the object c holds as raw_data_copy, with outcome stepped
Stepped(c, stepped) ==
    /\ calls' = [calls EXCEPT ![c].pc = IF stepped.exc # "none" THEN "done" ELSE @,
                              ![c].exc = stepped.exc,
                              ![c].actions = Tail(@),
                              ![c].raw_data_copy =
                                  IF @.id = "raw_data" THEN @ ELSE Obj(@.id, stepped.data)]
    /\ raw_data' = IF calls[c].raw_data_copy.id = "raw_data" THEN stepped.data ELSE raw_data
    /\ UNCHANGED <<data, last, gt>>

\* lines 79-81, one turn of the loop
ReplayStep(c) ==
    /\ calls[c].pc = "replaying"
    /\ calls[c].actions # <<>>
    /\ Stepped(c, step(Head(calls[c].actions), Held(calls[c], raw_data)))

\* lines 82-92
Compare(c) ==
    /\ calls[c].pc = "replaying"
    /\ calls[c].actions = <<>>
    /\ calls' = [calls EXCEPT ![c].pc = "done",
                              ![c].reward = Reward(calls[c].data_hash,
                                                   Return(Held(calls[c], raw_data), PNone))]
    /\ UNCHANGED <<raw_data, data, last, gt>>

ConcNext ==
    \E c \in Callers : TakeHash(c) \/ TakeCopy(c) \/ ReplayStep(c) \/ Compare(c)

ConcSpec == ConcInit /\ [][ConcNext]_vars

----------------------------------------------------------------------------

(* CallSpec: one call of a mutating operation, of the library or of the    *)
(* tool layer, on a prepared state: raw_data keeps the state before the    *)
(* call, data is the state after it.                                       *)

CallBases ==
    { World("pending", <<Payment(1000, "gift_card_1")>>, PFloat(500)),
      World("delivered", <<Payment(4000, "credit_card_1")>>, PFloat(1000)) }

\* world with one reference left dangling: the owner of the orders is no
\* user, the owner has no gift card, the product of item A is no product, a
\* payment of #W001 names a gift card the owner does not have
Dangling(world) ==
    { Put(world, "users", Without(Get(world, "users"), "u1")),
      PutPath(world, <<"users", "u1", "payment_methods">>,
              Without(Get(Get(Get(world, "users"), "u1"), "payment_methods"),
                      "gift_card_1")),
      Put(world, "products", Without(Get(world, "products"), "P1")),
      PutPath(world, <<"orders", "#W001", "payment_history">>,
              PList(Append(Get(Get(Get(world, "orders"), "#W001"), "payment_history").v,
                           Payment(500, "gift_card_9")))) }

CallWorlds == Worlds \cup UNION {Dangling(world) : world \in CallBases}

\* exchanges that break several preconditions at once, and two items exchanged
\* with the gift card
MoreExchangesOf(order_id) ==
    { ExchangeEntry(order_id, <<"Z">>, <<"B", "C">>, "gift_card_9"),
      ExchangeEntry(order_id, <<"A">>, <<"D", "C">>, "gift_card_9"),
      ExchangeEntry(order_id, <<"A">>, <<"D">>, "gift_card_9"),
      ExchangeEntry(order_id, <<"A", "E">>, <<"D", "Z">>, "gift_card_1"),
      ExchangeEntry(order_id, <<"A", "E">>, <<"Z", "D">>, "gift_card_1"),
      ExchangeEntry(order_id, <<"E", "Z">>, <<"F", "B">>, "gift_card_1"),
      ExchangeEntry(order_id, <<"A">>, <<"B">>, "gift_card_9"),
      ExchangeEntry(order_id, <<"A", "E">>, <<"B", "F">>, "gift_card_1"),
      ExchangeEntry(order_id, <<"E", "A">>, <<"F", "B">>, "gift_card_1"),
      ExchangeEntry(order_id, <<"C", "A">>, <<"B", "A">>, "gift_card_1"),
      ExchangeEntry(order_id, <<"A", "A">>, <<"C", "C">>, "gift_card_1") }

\* reasons that are not exactly one of the two allowed
OtherReasons == {"No longer needed", "no longer needed ", "ordered by mistake.", ""}

MutatingCalls ==
    ExchangeCalls \cup MoreExchangesOf("#W001") \cup MoreExchangesOf("#W002")
    \cup {ExchangeEntry("#W404", <<"Z">>, <<"B", "C">>, "gift_card_9")}
    \cup CancelCalls
    \cup {CancelEntry(o, r) : o \in {"#W001", "#W002"}, r \in OtherReasons}

CallInit ==
    /\ raw_data \in CallWorlds
    /\ data = raw_data
    /\ last = NoCall
    /\ gt = PList(<<>>)
    /\ calls = NoCalls

\* the first call on the prepared state, made of the library
LibraryCall(action) == last = NoCall /\ Call(action)

\* execute has run with outcome ran
Executed(action, ran) ==
    /\ data' = ran.data
    /\ last' = [via |-> "tool", action |-> action, ret |-> ran.ret, exc |-> ran.exc]
    /\ UNCHANGED <<raw_data, gt, calls>>

\* the first call on the prepared state, made of the tool layer
ToolCall(action) ==
    /\ last = NoCall
    /\ Executed(action, ToolExecute(Get(action, "name").v, data, Get(action, "kwargs")))

CallNext ==
    \/ \E action \in MutatingCalls : LibraryCall(action)
    \/ \E action \in MutatingCalls : ToolCall(action)

CallSpec == CallInit /\ [][CallNext]_vars

----------------------------------------------------------------------------
(* ManagerSpec: an instance with its ground truth; the tool calls of the   *)
(* trajectory mutate data, and the reward manager is asked for the score   *)
(* of the trajectory, for this data source or for another.                 *)

DataSources == {"tau_retail", "openai/gsm8k"}

\* extra_info of the instance: the trajectory's copy and the snapshot
ExtraInfo(d, raw) == PDict(<< <<"data", d>>, <<"raw_data", raw>> >>)

ManagerInit == ScoreInit

\* the call TauRetailRewardManager.compute_score(data_source, solution_str,
\* gt, extra_info) ends with the outcome managed
Managed(data_source, managed) ==
    /\ last' = [via |-> "manager",
                action |-> PDict(<< <<"data_source", PStr(data_source)>>,
                                    <<"ground_truth", gt>> >>),
                ret |-> managed.ret, exc |-> managed.exc]
    /\ data' = managed.data
    /\ raw_data' = managed.raw_data
    /\ UNCHANGED <<gt, calls>>

Manage(data_source) ==
    Managed(data_source,
            TauRetailRewardManager_compute_score(data_source, "", gt,
                                                 ExtraInfo(data, raw_data)))

ManagerNext ==
    \/ \E action \in TrajectoryCalls : Act(action)
    \/ \E data_source \in DataSources : Manage(data_source)

ManagerSpec == ManagerInit /\ [][ManagerNext]_vars

----------------------------------------------------------------------------
(* PairSpec: one exchange of an order that holds three items of one        *)
(* product, called with every list of old items and every list of new      *)
(* items up to a length.  The prices are floats held exactly, as           *)
(* json.load makes them of the decimals of the data.                       *)

\* the float of the decimal lit, which float.hex() prints as 0x1.<13 hexadecimal
\* digits>p<p>, given those 14 digits
Price(lit, digits, p) == PDouble(FromFloatHex(FALSE, digits, p), lit)

\* 104.02, 10.03 and 7.32
PriceX == Price("104.02", "1a0147ae147ae1", 6)

PriceY == Price("10.03", "140f5c28f5c28f", 3)

PriceZ == Price("7.32", "1d47ae147ae148", 2)

ItemAt(item_id, product_id, price) == Put(Item(item_id, product_id, 0), "price", price)

VariantAt(item_id, price) == Put(Variant(item_id, 0, TRUE), "price", price)

\* #W002 delivered, holding the variants X, Y and Z of the product P3
PairOrders ==
    PDict(<<
        <<"#W002", Order("#W002", "u1", "delivered",
                         <<ItemAt("X", "P3", PriceX), ItemAt("Y", "P3", PriceY),
                           ItemAt("Z", "P3", PriceZ)>>,
                         <<Payment(12137, "credit_card_1")>>)>>
    >>)

PairProducts ==
    Put(Products, "P3",
        Product("P3", << <<"X", VariantAt("X", PriceX)>>, <<"Y", VariantAt("Y", PriceY)>>,
                         <<"Z", VariantAt("Z", PriceZ)>> >>))

PairWorlds ==
    {PDict(<< <<"users", Users(b)>>, <<"orders", PairOrders>>,
              <<"products", PairProducts>> >>) :
        b \in {PFloat(0), PFloat(10000)}}

\* the longest list of items an exchange of PairSpec names
MaxItems == 3

\* the old items and the new items the exchanges name: B is a variant of
\* another product
OldItems == {"X", "Y", "Z"}

NewItems == {"X", "Y", "Z", "B"}

PairExchanges ==
    {ExchangeEntry("#W002", olds, news, "gift_card_1") :
        olds \in ListsUpTo(OldItems, MaxItems), news \in ListsUpTo(NewItems, MaxItems)}

PairInit ==
    /\ raw_data \in PairWorlds
    /\ data = raw_data
    /\ last = NoCall
    /\ gt = PList(<<>>)
    /\ calls = NoCalls

PairNext == \E action \in PairExchanges : LibraryCall(action)

PairSpec == PairInit /\ [][PairNext]_vars

----------------------------------------------------------------------------
(* Reading a state and the last call.                                      *)

\* the orders every world holds
OrderIds == {"#W001", "#W002"}

OrderOf(d, o) == Get(_get_orders(d), o)

StatusOf(d, o) == Get(OrderOf(d, o), "status").v

HistoryOf(d, o) == Get(OrderOf(d, o), "payment_history").v

OwnerOf(d, o) == Get(OrderOf(d, o), "user_id").v

MethodsOf(d, u) == Get(Get(_get_users(d), u), "payment_methods")

BalanceOf(d, u, pm) == Get(Get(MethodsOf(d, u), pm), "balance")

\* l is a call of the library function name
IsCall(l, name) == l.via = "library" /\ Get(l.action, "name") = PStr(name)

\* l is a call of name on the order o
IsCallOn(l, name, o) ==
    IsCall(l, name) /\ Get(Get(l.action, "kwargs"), "order_id") = PStr(o)

Arg(l, k) == Get(Get(l.action, "kwargs"), k)

Succeeded(l) == l.exc = "none" /\ l.ret.t = "tuple" /\ l.ret.v[1] = PBool(TRUE)

FailedWith(l, msg) == l.exc = "none" /\ l.ret = Failure(msg)

NonDelivered == "Error: non-delivered order cannot be exchanged"

NonPending == "Error: non-pending order cannot be cancelled"

Insufficient == "Error: insufficient gift card balance to pay for the price difference"

----------------------------------------------------------------------------
(* Properties of the action library, checked under Spec.                   *)

\* the exchange of the scenario: item A of #W002 for the variant B, paid by the
\* owner's gift card
ScenarioExchange == ExchangeEntry("#W002", <<"A">>, <<"B">>, "gift_card_1")

\* the call about to be recorded is the scenario's exchange, on the delivered
\* order, with the gift card holding balance
ScenarioStep(balance) ==
    /\ last'.via = "library"
    /\ last'.action = ScenarioExchange
    /\ StatusOf(data, "#W002") = "delivered"
    /\ BalanceOf(data, "u1", "gift_card_1") = balance

\* C2 as the spec states it: with item A bought at 20.00, variant B available
\* at 25.00 and a gift card holding 10.00, the exchange fails with the
\* insufficient-balance error and the order stays delivered
C2_Original ==
    [][ScenarioStep(PFloat(1000)) =>
           /\ FailedWith(last', Insufficient)
           /\ StatusOf(data', "#W002") = "delivered"]_vars

\* C2, amended: in that scenario the price difference is 5.00, so a gift card
\* holding 10.00 covers it: the exchange succeeds, the order becomes
\* `exchange requested` and records the difference 5.00.  The exchange fails
\* with the insufficient-balance error, the order staying delivered, exactly
\* when the card holds less than 5.00
C2_ScenarioExchange ==
    [][\A balance \in {PFloat(0), PFloat(500), PFloat(1000), PFloat(1500)} :
           ScenarioStep(balance) =>
               IF Cents(balance) < 500
               THEN /\ FailedWith(last', Insufficient)
                    /\ StatusOf(data', "#W002") = "delivered"
               ELSE /\ Succeeded(last')
                    /\ StatusOf(data', "#W002") = "exchange requested"
                    /\ Get(OrderOf(data', "#W002"), "exchange_price_difference")
                           = PFloat(500)]_vars

\* the scenario's exchange has succeeded against a gift card holding 10.00
C2_Witness ==
    /\ last.via = "library"
    /\ last.action = ScenarioExchange
    /\ Succeeded(last)
    /\ BalanceOf(data, "u1", "gift_card_1") = PFloat(1000)
    /\ StatusOf(data, "#W002") = "exchange requested"

\* the name and the order of the action of the last call or dispatch
Names(l, name, o) ==
    /\ l.via \in {"library", "step"}
    /\ Has(l.action, "name")
    /\ Get(l.action, "name") = PStr(name)
    /\ Has(l.action, "kwargs")
    /\ Get(Get(l.action, "kwargs"), "order_id") = PStr(o)

\* the status of o stays, or moves by one of the two steps
StatusStep(o) ==
    \/ StatusOf(data', o) = StatusOf(data, o)
    \/ /\ StatusOf(data, o) = "pending"
       /\ StatusOf(data', o) = "cancelled"
       /\ IsCallOn(last', "cancel_pending_order", o)
       /\ Succeeded(last')
    \/ /\ StatusOf(data, o) = "delivered"
       /\ StatusOf(data', o) = "exchange requested"
       /\ Names(last', "exchange_delivered_order_items", o)
       /\ last'.via = "library" => Succeeded(last')

\* C4: over every sequence of lookups, exchanges, cancels and dispatched
\* entries (unknown names among them), the status of an order changes only
\* from pending to cancelled, by a successful cancel of that order, and from
\* delivered to `exchange requested`, by a successful exchange of that order;
\* a cancelled, an `exchange requested` or any other status never changes
C4_StatusTransitions == [][\A o \in OrderIds : StatusStep(o)]_vars

\* both one-way steps have been taken, and a cancel of the cancelled order has
\* been refused
C4_Witness ==
    /\ StatusOf(data, "#W001") = "cancelled"
    /\ StatusOf(data, "#W002") = "exchange requested"
    /\ IsCallOn(last, "cancel_pending_order", "#W001")
    /\ FailedWith(last, NonPending)

\* C6: an exchange called on an existing order whose status is not delivered
\* returns the non-delivered failure and leaves the whole state as it was,
\* whatever its other arguments
C6_ExchangeNonDelivered ==
    [][\A o \in OrderIds :
           IsCallOn(last', "exchange_delivered_order_items", o)
           /\ StatusOf(data, o) # "delivered"
           => FailedWith(last', NonDelivered) /\ data' = data]_vars

\* an exchange with well-formed arguments has been refused on a pending order
C6_Witness ==
    /\ last.via = "library"
    /\ last.action = ExchangeEntry("#W001", <<"A">>, <<"C">>, "gift_card_1")
    /\ StatusOf(data, "#W001") = "pending"
    /\ FailedWith(last, NonDelivered)

\* C7: a cancel called on an existing order whose status is not pending
\* returns the non-pending failure and leaves the whole state as it was (no
\* refund appended, no balance changed), whatever the reason
C7_CancelNonPending ==
    [][\A o \in OrderIds :
           IsCallOn(last', "cancel_pending_order", o)
           /\ StatusOf(data, o) # "pending"
           => FailedWith(last', NonPending) /\ data' = data]_vars

\* a cancel with an allowed reason has been refused on a delivered order paid
\* in part by gift card
C7_Witness ==
    /\ last.via = "library"
    /\ last.action = CancelEntry("#W002", "no longer needed")
    /\ StatusOf(data, "#W002") = "delivered"
    /\ FailedWith(last, NonPending)

\* one step, for the action name whose success leaves an order in the status
\* settled: a success leaves o settled, a settled o stays settled, and a call
\* of name on a settled o is refused with msg and changes nothing
RepeatStep(o, name, settled, msg) ==
    /\ IsCallOn(last', name, o) /\ Succeeded(last') => StatusOf(data', o) = settled
    /\ StatusOf(data, o) = settled => StatusOf(data', o) = settled
    /\ StatusOf(data, o) = settled /\ IsCallOn(last', name, o)
       => FailedWith(last', msg) /\ data' = data

\* C5: neither mutating action is idempotent.  A successful exchange leaves
\* the order `exchange requested` and a successful cancel leaves it cancelled;
\* the order keeps that status under every later step; and every exchange
\* (cancel) of an order in that status fails on the status guard and leaves
\* the state unchanged, so no second refund is applied
C5_NotIdempotent ==
    [][\A o \in OrderIds :
           /\ RepeatStep(o, "exchange_delivered_order_items", "exchange requested",
                         NonDelivered)
           /\ RepeatStep(o, "cancel_pending_order", "cancelled", NonPending)]_vars

\* after a successful cancel of #W001 (refunded once) and a successful exchange
\* of #W002, a second exchange of #W002 has been refused
C5_Witness ==
    /\ StatusOf(data, "#W001") = "cancelled"
    /\ Len(HistoryOf(data, "#W001")) = 2 * Len(HistoryOf(raw_data, "#W001"))
    /\ StatusOf(data, "#W002") = "exchange requested"
    /\ IsCallOn(last, "exchange_delivered_order_items", "#W002")
    /\ FailedWith(last, NonDelivered)

RECURSIVE PaidWith(_, _)
\* the hundredths paid with the method pm over a payment history
PaidWith(history, pm) ==
    IF Len(history) = 0 THEN 0
    ELSE (IF Get(Head(history), "payment_method_id") = PStr(pm)
          THEN Cents(Get(Head(history), "amount")) ELSE 0)
         + PaidWith(Tail(history), pm)

\* the step is a successful cancel of o: what it leaves
CancelEffect(o) ==
    LET old == HistoryOf(data, o)
        new == HistoryOf(data', o)
        u == OwnerOf(data, o)
        methods == MethodsOf(data, u)
    IN  /\ StatusOf(data', o) = "cancelled"
        /\ Get(OrderOf(data', o), "cancel_reason") = Arg(last', "reason")
        /\ Len(new) = 2 * Len(old)
        /\ \A i \in 1..Len(old) :
               /\ new[i] = old[i]
               /\ Get(new[Len(old) + i], "transaction_type") = PStr("refund")
               /\ Get(new[Len(old) + i], "amount") = Get(old[i], "amount")
               /\ Get(new[Len(old) + i], "payment_method_id")
                      = Get(old[i], "payment_method_id")
        /\ \A i \in 1..Len(methods.v) :
               LET pm == methods.v[i][1]
               IN  Get(methods.v[i][2], "source") = PStr("gift_card")
                   => BalanceOf(data', u, pm)
                          = PFloat(Cents(BalanceOf(data, u, pm)) + PaidWith(old, pm))

\* the world of the scenario: #W001 pending, paid 10.00 with gift_card_1, which
\* holds 0.00
CancelScenario == World("pending", <<Payment(1000, "gift_card_1")>>, PFloat(0))

\* C8: a successful cancel leaves the order cancelled with the reason recorded,
\* keeps the payment history and appends to it one refund (type `refund`, same
\* amount, same payment-method id) per entry, in order, and raises the balance
\* of every gift card of the owner by exactly what the history paid with it;
\* in the scenario (10.00 paid with gift_card_1 holding 0.00) the card ends at
\* 10.00 and the history gains one refund of 10.00
C8_CancelRefunds ==
    [][/\ \A o \in OrderIds :
              IsCallOn(last', "cancel_pending_order", o) /\ Succeeded(last')
              => CancelEffect(o)
       /\ data = CancelScenario /\ last'.via = "library"
          /\ last'.action = CancelEntry("#W001", "no longer needed")
          => /\ Succeeded(last')
             /\ Get(OrderOf(data', "#W001"), "cancel_reason") = PStr("no longer needed")
             /\ BalanceOf(data', "u1", "gift_card_1") = PFloat(1000)
             /\ HistoryOf(data', "#W001")
                    = <<Payment(1000, "gift_card_1"),
                        PDict(<< <<"transaction_type", PStr("refund")>>,
                                 <<"amount", PFloat(1000)>>,
                                 <<"payment_method_id", PStr("gift_card_1")>> >>)>>]_vars

\* the cancel of the scenario has succeeded: one refund, the card at 10.00
C8_Witness ==
    /\ raw_data = CancelScenario
    /\ last.via = "library"
    /\ last.action = CancelEntry("#W001", "no longer needed")
    /\ Succeeded(last)
    /\ StatusOf(data, "#W001") = "cancelled"
    /\ BalanceOf(data, "u1", "gift_card_1") = PFloat(1000)
    /\ Len(HistoryOf(data, "#W001")) = 2

\* the preconditions of an exchange other than the balance: the order exists
\* and is delivered, it holds every item named as often as it is named, as
\* many new items as old ones are named, every new item is an available
\* variant of the product of the item it replaces, and the payment method is
\* one of the owner's
ExchangePreconditions(d, kw) ==
    LET o == Get(kw, "order_id").v
        olds == Get(kw, "item_ids").v
        news == Get(kw, "new_item_ids").v
    IN  /\ Has(_get_orders(d), o)
        /\ StatusOf(d, o) = "delivered"
        /\ LET items == Get(OrderOf(d, o), "items").v
               held == [i \in 1..Len(items) |-> Get(items[i], "item_id")]
           IN  \A i \in 1..Len(olds) : Count(olds, olds[i]) <= Count(held, olds[i])
        /\ Len(olds) = Len(news)
        /\ \A i \in 1..Len(olds) :
               ~BadPair(OrderOf(d, o), _get_products(d), olds[i], news[i])
        /\ Has(MethodsOf(d, OwnerOf(d, o)), Get(kw, "payment_method_id").v)

\* the rounded price difference of an exchange whose preconditions hold
PriceDifference(d, kw) ==
    round2(DiffPrice(OrderOf(d, Get(kw, "order_id").v), _get_products(d),
                     Get(kw, "item_ids").v, Get(kw, "new_item_ids").v,
                     Len(Get(kw, "item_ids").v)))

\* the step is an exchange whose other preconditions hold: its outcome
BalanceCheck(kw) ==
    LET o == Get(kw, "order_id").v
        pm == Get(MethodsOf(data, OwnerOf(data, o)), Get(kw, "payment_method_id").v)
    IN  IF /\ Get(pm, "source") = PStr("gift_card")
           /\ Cents(Get(pm, "balance")) < Cents(PriceDifference(data, kw))
        THEN FailedWith(last', Insufficient) /\ StatusOf(data', o) = "delivered"
        ELSE Succeeded(last') /\ StatusOf(data', o) = "exchange requested"

\* C9: an exchange of a delivered order whose other preconditions hold fails
\* with the insufficient-balance error exactly when the payment method has
\* source gift_card and a balance strictly below the rounded price difference,
\* and the order then stays delivered; in every other case, a method of any
\* other source included (it carries no balance), the exchange succeeds
C9_BalanceCheck ==
    [][IsCall(last', "exchange_delivered_order_items")
       /\ ExchangePreconditions(data, Get(last'.action, "kwargs"))
       => BalanceCheck(Get(last'.action, "kwargs"))]_vars

\* a dearer variant has been refused on a delivered order: the gift card holds
\* less than the difference
C9_Witness ==
    /\ last.via = "library"
    /\ last.action = ExchangeEntry("#W001", <<"A">>, <<"B">>, "gift_card_1")
    /\ FailedWith(last, Insufficient)
    /\ StatusOf(data, "#W001") = "delivered"
    /\ BalanceOf(data, "u1", "gift_card_1") = PFloat(0)

----------------------------------------------------------------------------
(* Properties of the scorer, checked under ScoreSpec.                      *)

\* every entry names a function of the action library and gives exactly its
\* keyword arguments
IsLibraryList(ground_truth) ==
    \A i \in 1..Len(ground_truth.v) :
        LET act == ground_truth.v[i]
        IN  /\ Has(act, "name")
            /\ Get(act, "name").t = "str"
            /\ Get(act, "name").v \in LibraryNames
            /\ Has(act, "kwargs")
            /\ Get(act, "kwargs").t = "dict"
            /\ {Get(act, "kwargs").v[j][1] : j \in 1..Len(Get(act, "kwargs").v)}
                   = KeywordParams(Get(act, "name").v)

RECURSIVE Applied(_, _, _)
\* the state the action library leaves when the actions from i on are applied
\* in order to d
Applied(actions, i, d) ==
    IF i > Len(actions) THEN d
    ELSE Applied(actions, i + 1,
                 CallFunction(Get(actions[i], "name").v, d,
                              Get(actions[i], "kwargs")).data)

\* C1 as the spec states it: when the ground truth is a list of action-library
\* actions and the observed end state is what the library leaves when that
\* list is applied in order to the initial state, compute_score returns 1.0, a
\* successful cancel_pending_order in the list included
C1_ReplayOfSameList ==
    last.via = "compute_score" /\ IsLibraryList(gt) /\ data = Applied(gt.v, 1, raw_data)
    => last.exc = "none" /\ last.ret = PFloat(100)

\* C3: whenever compute_score returns, it returns 1.0 if the canonical form of
\* the replayed state (raw_data after the non-respond ground-truth actions, in
\* order, through step) equals the canonical form of the observed state, and
\* 0.0 if it does not; it returns nothing else
C3_RewardIffEqual ==
    last.via = "compute_score" /\ last.exc = "none"
    => last.ret = IF to_hashable(Replay(ReplayActions(gt), 1, raw_data).data)
                       = to_hashable(data)
                  THEN PFloat(100) ELSE PFloat(0)

\* a mutation made by the trajectory and by the replay alike has scored 1.0
C3_Witness ==
    /\ last.via = "compute_score"
    /\ last.ret = PFloat(100)
    /\ data # raw_data
    /\ StatusOf(data, "#W002") = "exchange requested"

\* C10 as the spec states it: for every ground-truth list compute_score
\* completes without raising and returns 0.0 or 1.0
C10_AlwaysReward ==
    last.via = "compute_score"
    => last.exc = "none" /\ last.ret \in {PFloat(0), PFloat(100)}

----------------------------------------------------------------------------
(* Properties of the action library on irregular snapshots and arguments,  *)
(* checked under EdgeSpec.                                                 *)

\* the top-level keys d lacks
MissingKeys(d) == {k \in TopLevelKeys : ~Has(d, k)}

\* d with an empty mapping under every top-level key it lacks
Filled(d) ==
    LET WithKey(x, k) == IF Has(x, k) THEN x ELSE Put(x, k, EmptyDict)
    IN  WithKey(WithKey(WithKey(d, "users"), "orders"), "products")

\* the function the call l names, applied to the state d
SameCallOn(l, d) == CallFunction(Get(l.action, "name").v, d, Get(l.action, "kwargs"))

\* every argument of the call l is a text or a list
TextArgs(l) ==
    \A i \in 1..Len(Get(l.action, "kwargs").v) :
        Get(l.action, "kwargs").v[i][2].t \in {"str", "list"}

\* C11 as the spec states it: a library function called, with arguments of the
\* declared types, on a state that lacks a top-level key does not raise and
\* returns what it returns when the key maps to an empty mapping; with
\* `orders` absent the lookup of an order returns not-found and exchange and
\* cancel return the order-not-found failure
C11_MissingKeyAsEmpty ==
    [][last'.via = "library" /\ TextArgs(last') /\ MissingKeys(data) # {}
       => /\ last'.exc = "none"
          /\ last'.ret = SameCallOn(last', Filled(data)).ret
          /\ ~Has(data, "orders")
             => /\ IsCall(last', "get_order_details") => last'.ret = PNone
                /\ IsCall(last', "exchange_delivered_order_items")
                   \/ IsCall(last', "cancel_pending_order")
                   => FailedWith(last', "Error: order not found")]_vars

LookupNames ==
    {"find_user_id_by_name_zip", "find_user_id_by_email", "get_order_details",
     "get_user_details", "get_product_details"}

\* r is an id or an entity the state d holds
HeldBy(d, r) ==
    \/ r.t = "str" /\ Has(_get_users(d), r.v)
    \/ \E k \in TopLevelKeys :
           \E i \in 1..Len(GetOr(d, k, EmptyDict).v) : GetOr(d, k, EmptyDict).v[i][2] = r

\* C12 as the spec states it: a lookup, on every state and with every argument
\* value, does not raise, leaves the state unchanged, and returns the
\* not-found value or an id or entity of the state
C12_LookupsTotal ==
    [][last'.via = "library" /\ Get(last'.action, "name").v \in LookupNames
       => /\ last'.exc = "none"
          /\ data' = data
          /\ last'.ret = PNone \/ HeldBy(data, last'.ret)]_vars

RECURSIVE StripLeft(_)
StripLeft(s) ==
    IF Len(s) > 0 /\ SubSeq(s, 1, 1) = " " THEN StripLeft(SubSeq(s, 2, Len(s))) ELSE s

RECURSIVE StripRight(_)
StripRight(s) ==
    IF Len(s) > 0 /\ SubSeq(s, Len(s), Len(s)) = " "
    THEN StripRight(SubSeq(s, 1, Len(s) - 1)) ELSE s

\* a name as the spec compares it: None or a missing name is the empty text,
\* the case is ignored
NormName(holder, k) ==
    IF holder.t = "dict" /\ Has(holder, k) /\ Get(holder, k).t = "str"
    THEN Lower(Get(holder, k).v) ELSE ""

\* a zip as the spec compares it: coerced to a text and trimmed
NormZip(x) ==
    IF x.t = "str" THEN StripLeft(StripRight(x.v))
    ELSE IF x.t = "int" THEN ToString(x.v)
    ELSE ""

\* the user profile matches the arguments kw as the spec compares them
SpecNameZipMatch(profile, kw) ==
    /\ NormName(GetOr(profile, "name", EmptyDict), "first_name") = NormName(kw, "first_name")
    /\ NormName(GetOr(profile, "name", EmptyDict), "last_name") = NormName(kw, "last_name")
    /\ NormZip(GetOr(GetOr(profile, "address", EmptyDict), "zip", PNone))
           = NormZip(GetOr(kw, "zip", PNone))

\* the first user of d, in mapping order, that matches; not-found otherwise
SpecNameZip(d, kw) ==
    LET users == _get_users(d).v
        hits == {i \in 1..Len(users) : SpecNameZipMatch(users[i][2], kw)}
    IN  IF hits = {} THEN PNone
        ELSE PStr(users[CHOOSE i \in hits : \A j \in hits : i <= j][1])

\* C13 as the spec states it: find_user_id_by_name_zip returns the first user
\* whose names equal the arguments ignoring case, None or missing names taken
\* as the empty text, and whose stored zip, coerced to a text and trimmed,
\* equals the trimmed zip argument (a zip stored as the number 78701 is matched
\* by the argument "78701"); not-found when there is none
C13_NameZipNormalised ==
    [][IsCall(last', "find_user_id_by_name_zip")
       => /\ last'.exc = "none"
          /\ last'.ret = SpecNameZip(data, Get(last'.action, "kwargs"))]_vars

----------------------------------------------------------------------------
(* Further properties of the scorer, checked under ScoreSpec.              *)

\* C14: compute_score leaves both of its inputs as they were: the observed
\* state data and the snapshot raw_data hold the same values after the call as
\* before it, whatever the ground truth does on the replay copy
C14_InputsUnchanged ==
    [][last'.via = "compute_score" => data' = data /\ raw_data' = raw_data]_vars

\* a call has returned whose ground truth exchanged an item of #W002 on the
\* replay copy, and the snapshot still holds the order as delivered
C14_Witness ==
    /\ last.via = "compute_score"
    /\ last.exc = "none"
    /\ StatusOf(Replay(ReplayActions(gt), 1, raw_data).data, "#W002") = "exchange requested"
    /\ StatusOf(raw_data, "#W002") = "delivered"

\* the entry is named respond
IsRespond(act) == GetOr(act, "name", PNone) = PStr("respond")

\* the ground truth with its respond entries removed
WithoutRespond(ground_truth) == PList(SelectSeq(ground_truth.v, LAMBDA act : ~IsRespond(act)))

\* the outcome of a scoring call equals the outcome scored
SameOutcome(l, scored) == l.ret = scored.reward /\ l.exc = scored.exc

----------------------------------------------------------------------------
(* Properties of the fingerprint, checked under FingerprintSpec.           *)

RECURSIVE SameValue(_, _)
\* a and b are the same value: mappings with the same keys and the same
\* values whatever the order of the keys, sequences the same element by
\* element, anything else of the same type and value
SameValue(a, b) ==
    IF a.t = "dict" /\ b.t = "dict"
    THEN /\ Len(a.v) = Len(b.v)
         /\ \A i \in 1..Len(a.v) :
                Has(b, a.v[i][1]) /\ SameValue(a.v[i][2], Get(b, a.v[i][1]))
    ELSE IF a.t = "list" /\ b.t = "list"
    THEN /\ Len(a.v) = Len(b.v)
         /\ \A i \in 1..Len(a.v) : SameValue(a.v[i], b.v[i])
    ELSE a.t = b.t /\ a = b

\* C16: with an empty ground truth compute_score returns 1.0 when the
\* observed state equals the snapshot and 0.0 when it differs from it in any
\* field: a status, an added field, a balance, an appended payment entry.
C16_EmptyGroundTruth ==
    last.via = "compute_score" /\ gt = PList(<<>>)
        => /\ last.exc = "none"
           /\ last.ret = IF SameValue(raw_data, data) THEN PFloat(100) ELSE PFloat(0)

\* an empty ground truth has scored 0.0 against a state that differs from
\* the snapshot in one balance only
C16_Witness ==
    /\ last.via = "compute_score"
    /\ gt = PList(<<>>)
    /\ last.ret = PFloat(0)
    /\ Get(raw_data, "orders") = Get(data, "orders")
    /\ BalanceOf(data, "u1", "gift_card_1") # BalanceOf(raw_data, "u1", "gift_card_1")

\* the two fingerprints the last call returned
SnapshotHash(l) == l.ret.v[1]
ObservedHash(l) == l.ret.v[2]

\* the items of order oid in d
ItemsOf(d, oid) == Get(OrderOf(d, oid), "items").v

\* C19: the fingerprint of a state does not depend on the order of the keys
\* of its mappings, at any depth, and does depend on the order of its
\* sequences: two states have the same fingerprint exactly when they are the
\* same up to the order of keys, so re-ordered items or payment entries of an
\* order give another fingerprint.
C19_KeyOrderOnly ==
    last.via = "get_data_hash"
        => /\ (SnapshotHash(last) = ObservedHash(last)) <=> SameValue(raw_data, data)
           /\ data = ReverseKeys(raw_data) => SnapshotHash(last) = ObservedHash(last)
           /\ (/\ ItemsOf(data, "#W002") # ItemsOf(raw_data, "#W002")
               /\ ItemsOf(data, "#W002") = Reverse(ItemsOf(raw_data, "#W002")))
                  => SnapshotHash(last) # ObservedHash(last)
           /\ (/\ HistoryOf(data, "#W002") # HistoryOf(raw_data, "#W002")
               /\ HistoryOf(data, "#W002") = Reverse(HistoryOf(raw_data, "#W002")))
                  => SnapshotHash(last) # ObservedHash(last)

\* the snapshot and the same state with the keys of every mapping in the
\* opposite order have been given one fingerprint
C19_Witness ==
    /\ last.via = "get_data_hash"
    /\ data # raw_data
    /\ data = ReverseKeys(raw_data)
    /\ SnapshotHash(last) = ObservedHash(last)

----------------------------------------------------------------------------
(* Properties of the dispatcher, checked under Spec.                       *)

\* l is a dispatch of an entry that carries a name
IsStep(l) == l.via = "step" /\ Has(l.action, "name")

\* the name of the entry is a string that is no key of ACTION_DISPATCH
UnknownName(action) ==
    Get(action, "name").t = "str" /\ Get(action, "name").v \notin ACTION_DISPATCH

\* C17: dispatching an action whose name is not in the dispatch table is a
\* silent no-op: step returns without error and leaves the state as it was,
\* whatever the entry carries as kwargs.
C17_UnknownNameNoOp ==
    [][IsStep(last') /\ UnknownName(last'.action)
          => last'.exc = "none" /\ last'.ret = PNone /\ data' = data]_vars

\* an entry with an unknown name and a text in place of its kwargs has been
\* dispatched
C17_Witness ==
    /\ IsStep(last)
    /\ UnknownName(last.action)
    /\ GetOr(last.action, "kwargs", PNone).t = "str"
    /\ last.exc = "none"

\* the keys of the kwargs of an entry that its function does not take
ExtraKeys(action) ==
    {Get(action, "kwargs").v[i][1] : i \in 1..Len(Get(action, "kwargs").v)}
        \ KeywordParams(Get(action, "name").v)

\* the entry with the extra keys taken out of its kwargs
Plain(action) ==
    Put(action, "kwargs",
        PDict(SelectSeq(Get(action, "kwargs").v,
                        LAMBDA p : p[1] \in KeywordParams(Get(action, "name").v))))

\* the entry resolves to a function and carries keys the function does not take
HasExtraKeys(action) ==
    /\ Has(action, "name") /\ Has(action, "kwargs")
    /\ Get(action, "name").t = "str" /\ Get(action, "name").v \in ACTION_DISPATCH
    /\ Get(action, "kwargs").t = "dict"
    /\ ExtraKeys(action) # {}

\* the dispatch has the outcome and the state stepped holds
SameStep(l, d, stepped) == l.exc = stepped.exc /\ l.ret = stepped.ret /\ d = stepped.data

\* C18: keys of the kwargs that the function does not take are dropped: step
\* on kwargs with extra keys has the result and the state effect of step on
\* the kwargs without them, whatever the extra keys are named.
C18_ExtraKeysDropped ==
    [][last'.via = "step" /\ HasExtraKeys(last'.action)
          => SameStep(last', data', step(Plain(last'.action), data))]_vars

----------------------------------------------------------------------------
(* Properties of concurrent scoring calls, checked under ConcSpec.         *)

\* what is left of the replay of call gives, from the object the call holds,
\* the outcome the whole replay gives on the snapshot
ReplayAsAlone(call) ==
    Replay(call.actions, 1, Held(call, raw_data))
        = Replay(ReplayActions(call.ground_truth), 1, raw_data)

\* the call has ended as compute_score on its arguments ends
EndedAsAlone(call) ==
    SameOutcome([ret |-> call.reward, exc |-> call.exc],
                compute_score(call.ground_truth, data, raw_data))

\* C20: scoring calls given the same data and raw_data objects can be
\* interleaved in any order: the replay of each call runs on the copy the
\* call made, no step of any call changes data or raw_data or the copy of
\* another call, and each call returns the reward it returns when run alone.
C20_CallsIndependent ==
    /\ [](\A c \in Callers :
            /\ calls[c].pc = "replaying" => ReplayAsAlone(calls[c])
            /\ calls[c].pc = "done" => EndedAsAlone(calls[c]))
    /\ [][raw_data' = raw_data /\ data' = data]_vars

\* the replay of c1 has made its exchange while c2, given the same objects,
\* holds its copy and has its replay still to run; c1 goes on to score 1.0
C20_Witness ==
    /\ calls["c1"].pc = "replaying"
    /\ Held(calls["c1"], raw_data) # raw_data
    /\ Held(calls["c1"], raw_data) = data
    /\ calls["c2"].pc = "replaying"
    /\ calls["c2"].actions # <<>>
    /\ Held(calls["c2"], raw_data) = raw_data

----------------------------------------------------------------------------
(* Properties of one mutating call, checked under CallSpec: raw_data is    *)
(* the state before the call, data the state after it.                     *)

\* the tool call l has ended with a response that is no error text
ToolSucceeded(l) ==
    /\ l.exc = "none"
    /\ SubSeq(l.ret.v[1].v, 1, Len("Error:")) # "Error:"

\* the library call has ended with (True, order)
LibrarySucceeded(called) ==
    called.exc = "none" /\ called.ret.t = "tuple" /\ called.ret.v[1] = PBool(TRUE)

\* the tool call l, which left the state d, succeeded or failed as the library
\* call did and left a state of the same fingerprint
SameAsLibrary(l, d, called) ==
    /\ ToolSucceeded(l) <=> LibrarySucceeded(called)
    /\ get_data_hash(d) = get_data_hash(called.data)

\* C21: the execute of the tool layer and the library function of the same
\* name are equivalent: on every state and every arguments both succeed or
\* both fail, and they leave states of the same fingerprint, the type and
\* value of exchange_price_difference included.
C21_ToolAsLibrary ==
    last.via = "tool" => SameAsLibrary(last, data, SameCallOn(last, raw_data))

\* the user u has the payment method pm in the state d
HasMethod(d, u, pm) ==
    /\ Has(_get_users(d), u)
    /\ Has(Get(Get(_get_users(d), u), "payment_methods"), pm)

\* the exchange l names an existing order and a reference that is absent from
\* the state d: the owner of the order, the payment method among the owner's,
\* or the product of an old item
ExchangeReferenceAbsent(d, l) ==
    /\ IsCall(l, "exchange_delivered_order_items")
    /\ Has(_get_orders(d), Arg(l, "order_id").v)
    /\ LET o == Arg(l, "order_id").v
           items == Get(OrderOf(d, o), "items").v
       IN  \/ ~HasMethod(d, OwnerOf(d, o), Arg(l, "payment_method_id").v)
           \/ \E i \in 1..Len(items) :
                  /\ \E j \in 1..Len(Arg(l, "item_ids").v) :
                         Arg(l, "item_ids").v[j] = Get(items[i], "item_id")
                  /\ ~Has(_get_products(d), Get(items[i], "product_id").v)

\* the cancel l names an existing order with a gift-card payment whose payment
\* method the owner does not have in the state d
CancelReferenceAbsent(d, l) ==
    /\ IsCall(l, "cancel_pending_order")
    /\ Has(_get_orders(d), Arg(l, "order_id").v)
    /\ LET o == Arg(l, "order_id").v
       IN  \E i \in 1..Len(HistoryOf(d, o)) :
               /\ Contains("gift_card", Get(HistoryOf(d, o)[i], "payment_method_id").v)
               /\ ~HasMethod(d, OwnerOf(d, o), Get(HistoryOf(d, o)[i], "payment_method_id").v)

\* C22: exchange_delivered_order_items and cancel_pending_order report an
\* absent reference (the owner of the order, the payment method chosen, the
\* product of an old item, the payment method of a gift-card payment) as a
\* not-successful result, never as an exception.
C22_AbsentReferenceFails ==
    ExchangeReferenceAbsent(raw_data, last) \/ CancelReferenceAbsent(raw_data, last)
        => last.exc = "none" /\ last.ret.v[1] = PBool(FALSE)

\* the fields a successful exchange writes
ExchangeFields ==
    {"status", "exchange_items", "exchange_new_items", "exchange_payment_method_id",
     "exchange_price_difference"}

\* the state d with the fields an exchange writes taken out of the order o
BesidesExchange(d, o) ==
    PutPath(d, <<"orders", o>>,
            PDict(SelectSeq(OrderOf(d, o).v, LAMBDA p : p[1] \notin ExchangeFields)))

\* C23: a successful exchange_delivered_order_items changes nothing but the
\* status and the four exchange_* fields of the order: its items (ids,
\* products, prices) and its payment_history, every other order, every user
\* and balance (the gift card is neither debited nor credited) and every
\* product are as before.
C23_ExchangeFrame ==
    IsCall(last, "exchange_delivered_order_items") /\ Succeeded(last)
        => /\ BesidesExchange(data, Arg(last, "order_id").v)
                  = BesidesExchange(raw_data, Arg(last, "order_id").v)
           /\ ItemsOf(data, Arg(last, "order_id").v)
                  = ItemsOf(raw_data, Arg(last, "order_id").v)
           /\ HistoryOf(data, Arg(last, "order_id").v)
                  = HistoryOf(raw_data, Arg(last, "order_id").v)
           /\ _get_users(data) = _get_users(raw_data)
           /\ _get_products(data) = _get_products(raw_data)

\* item A of #W001 has been exchanged for the dearer variant B, paid with the
\* gift card, which holds 10.00 as before
C23_Witness ==
    /\ last.via = "library"
    /\ last.action = ExchangeEntry("#W001", <<"A">>, <<"B">>, "gift_card_1")
    /\ Succeeded(last)
    /\ StatusOf(data, "#W001") = "exchange requested"
    /\ BalanceOf(raw_data, "u1", "gift_card_1") = PFloat(1000)
    /\ BalanceOf(data, "u1", "gift_card_1") = PFloat(1000)

\* the gift cards a payment history names
GiftCardsPaid(history) ==
    {Get(history[i], "payment_method_id").v : i \in
        {j \in 1..Len(history) :
            Contains("gift_card", Get(history[j], "payment_method_id").v)}}

\* the user record without its payment methods
BesidesMethods(user) == Without(user, "payment_methods")

\* the cancel of the order o, owned by u, has left every payment of the
\* history its refund entry, changed no payment method but in its balance and
\* no balance but of the owner's gift cards the history paid with, and changed
\* nothing of the other users, the other orders and the products
CancelFrame(before, after, o, u) ==
    /\ \A i \in 1..Len(HistoryOf(before, o)) :
           HistoryOf(after, o)[Len(HistoryOf(before, o)) + i] = Refund(HistoryOf(before, o)[i])
    /\ _get_products(after) = _get_products(before)
    /\ KeysOf(_get_orders(after)) = KeysOf(_get_orders(before))
    /\ \A x \in OrderIds \ {o} : OrderOf(after, x) = OrderOf(before, x)
    /\ KeysOf(_get_users(after)) = KeysOf(_get_users(before))
    /\ \A i \in 1..Len(_get_users(before).v) :
           _get_users(before).v[i][1] # u
               => _get_users(after).v[i] = _get_users(before).v[i]
    /\ BesidesMethods(Get(_get_users(after), u)) = BesidesMethods(Get(_get_users(before), u))
    /\ KeysOf(MethodsOf(after, u)) = KeysOf(MethodsOf(before, u))
    /\ \A i \in 1..Len(MethodsOf(before, u).v) :
           LET pm == MethodsOf(before, u).v[i][1]
           IN  /\ Without(Get(MethodsOf(after, u), pm), "balance")
                      = Without(Get(MethodsOf(before, u), pm), "balance")
               /\ pm \notin GiftCardsPaid(HistoryOf(before, o))
                      => Get(MethodsOf(after, u), pm) = Get(MethodsOf(before, u), pm)

\* C24: a successful cancel_pending_order records a refund entry for a payment
\* made with a method that is no gift card, and changes no balance for it: the
\* only balances that change are those of the gift cards of the owner that
\* the payment history names, and no other user, order or product changes.
C24_CancelFrame ==
    IsCall(last, "cancel_pending_order") /\ Succeeded(last)
        => CancelFrame(raw_data, data, Arg(last, "order_id").v,
                       OwnerOf(raw_data, Arg(last, "order_id").v))

\* #W001, paid 15.00 by card and 5.00 by gift card, has been cancelled: four
\* entries in its history, the card as it was, the gift card 5.00 up
C24_Witness ==
    /\ IsCallOn(last, "cancel_pending_order", "#W001")
    /\ Succeeded(last)
    /\ HistoryOf(raw_data, "#W001") = <<Payment(1500, "credit_card_1"), Payment(500, "gift_card_1")>>
    /\ Len(HistoryOf(data, "#W001")) = 4
    /\ Get(MethodsOf(data, "u1"), "credit_card_1") = Get(MethodsOf(raw_data, "u1"), "credit_card_1")
    /\ Cents(BalanceOf(data, "u1", "gift_card_1"))
           = Cents(BalanceOf(raw_data, "u1", "gift_card_1")) + 500

\* the first item of the order o in d whose id is old
FirstHeld(d, o, old) ==
    LET items == ItemsOf(d, o)
        at == {i \in 1..Len(items) : Get(items[i], "item_id") = old}
    IN  items[CHOOSE i \in at : \A j \in at : i <= j]

\* the price, in hundredths, of the variant new of the product of item
VariantPrice(d, item, new) ==
    Cents(Get(Get(Get(Get(_get_products(d), Get(item, "product_id").v), "variants"),
                  new.v), "price"))

RECURSIVE SumOfDifferences(_, _, _, _)
\* the sum over the pairs (olds[i], news[i]) of the price of the new variant
\* less the purchase price of the old item, in hundredths
SumOfDifferences(d, o, olds, news) ==
    IF Len(olds) = 0 THEN 0
    ELSE VariantPrice(d, FirstHeld(d, o, Head(olds)), Head(news))
         - Cents(Get(FirstHeld(d, o, Head(olds)), "price"))
         + SumOfDifferences(d, o, Tail(olds), Tail(news))

\* the order the call l names is an order of d and its owner a user of d
OwnerKnown(d, l) ==
    /\ Has(_get_orders(d), Arg(l, "order_id").v)
    /\ Has(_get_users(d), OwnerOf(d, Arg(l, "order_id").v))

\* the exchange of item A, bought at 20.00, for the variant C at 15.00, paid
\* with the gift card
CheaperExchange(o) == ExchangeEntry(o, <<"A">>, <<"C">>, "gift_card_1")

\* C25: the exchange_price_difference a successful exchange records is the sum
\* over the pairs (old, new) of the price of the variant new in the product of
\* the first item of the order whose id is old, less the purchase price of
\* that item, to 2 decimals; a negative difference is allowed and passes the
\* balance check of a gift card with a balance of 0 or more: 20.00 -> 15.00
\* against 10.00 succeeds with status `exchange requested`.
C25_PriceDifference ==
    /\ IsCall(last, "exchange_delivered_order_items") /\ Succeeded(last)
       => Get(OrderOf(data, Arg(last, "order_id").v), "exchange_price_difference")
              = PFloat(SumOfDifferences(raw_data, Arg(last, "order_id").v,
                                        Arg(last, "item_ids").v, Arg(last, "new_item_ids").v))
    /\ (/\ IsCall(last, "exchange_delivered_order_items")
        /\ OwnerKnown(raw_data, last)
        /\ ExchangePreconditions(raw_data, Get(last.action, "kwargs"))
        /\ SumOfDifferences(raw_data, Arg(last, "order_id").v,
                            Arg(last, "item_ids").v, Arg(last, "new_item_ids").v) < 0)
       => Succeeded(last)
    /\ \A o \in OrderIds :
           (/\ last.via = "library" /\ last.action = CheaperExchange(o)
            /\ StatusOf(raw_data, o) = "delivered"
            /\ HasMethod(raw_data, "u1", "gift_card_1")
            /\ Has(_get_products(raw_data), "P1"))
           => /\ Succeeded(last)
              /\ StatusOf(data, o) = "exchange requested"
              /\ Get(OrderOf(data, o), "exchange_price_difference") = PFloat(-500)

\* item A of #W002, bought at 20.00, has been exchanged for the variant at
\* 15.00 against a gift card holding 10.00: the difference recorded is -5.00
C25_Witness ==
    /\ last.via = "library"
    /\ last.action = CheaperExchange("#W002")
    /\ Succeeded(last)
    /\ BalanceOf(raw_data, "u1", "gift_card_1") = PFloat(1000)
    /\ StatusOf(data, "#W002") = "exchange requested"
    /\ Get(OrderOf(data, "#W002"), "exchange_price_difference") = PFloat(-500)

\* how often x occurs in the sequence xs
Occurrences(xs, x) == Cardinality({i \in 1..Len(xs) : xs[i] = x})

\* the ids of the items the order o holds in d, in order
HeldIds(d, o) == [i \in 1..Len(ItemsOf(d, o)) |-> Get(ItemsOf(d, o)[i], "item_id")]

\* the positions of item_ids whose id is asked for more often than the order
\* holds it
OverRequested(d, l) ==
    {i \in 1..Len(Arg(l, "item_ids").v) :
        Occurrences(Arg(l, "item_ids").v, Arg(l, "item_ids").v[i])
            > Occurrences(HeldIds(d, Arg(l, "order_id").v), Arg(l, "item_ids").v[i])}

\* l is an exchange asked of an order that d holds as delivered
ExchangeOfDelivered(d, l) ==
    /\ IsCall(l, "exchange_delivered_order_items")
    /\ Has(_get_orders(d), Arg(l, "order_id").v)
    /\ StatusOf(d, Arg(l, "order_id").v) = "delivered"

NotFound(id) == "Error: " \o id \o " not found"

\* C26: exchange_delivered_order_items fails, naming the id, whenever an old
\* item id occurs more often in item_ids than among the items of the order;
\* occurrences are counted: an id asked for twice passes only if the order
\* holds it twice, and an id the order does not hold always fails.
C26_Multiplicity ==
    /\ ExchangeOfDelivered(raw_data, last)
       => IF OverRequested(raw_data, last) # {}
          THEN /\ \E i \in OverRequested(raw_data, last) :
                      FailedWith(last, NotFound(Arg(last, "item_ids").v[i].v))
               /\ data = raw_data
          ELSE \A i \in 1..Len(Arg(last, "item_ids").v) :
                   ~FailedWith(last, NotFound(Arg(last, "item_ids").v[i].v))
    /\ (/\ last.via = "library"
        /\ last.action = ExchangeEntry("#W001", <<"A", "A">>, <<"B", "C">>, "credit_card_1")
        /\ ExchangeOfDelivered(raw_data, last)
        /\ last.exc = "none")
       => Succeeded(last) \/ FailedWith(last, "Error: new item B not found or available")

\* item A has been asked for twice of #W002, which holds it once: the
\* exchange has failed naming A
C26_Witness ==
    /\ last.via = "library"
    /\ last.action = ExchangeEntry("#W002", <<"A", "A">>, <<"B", "C">>, "credit_card_1")
    /\ Occurrences(HeldIds(raw_data, "#W002"), PStr("A")) = 1
    /\ FailedWith(last, NotFound("A"))
    /\ data = raw_data

\* new is an available variant of the product of the first item of o with id
\* old
AvailableVariant(d, o, old, new) ==
    LET product_id == Get(FirstHeld(d, o, old), "product_id").v
    IN  /\ Has(_get_products(d), product_id)
        /\ Has(Get(Get(_get_products(d), product_id), "variants"), new.v)
        /\ Get(Get(Get(Get(_get_products(d), product_id), "variants"), new.v),
               "available") = PBool(TRUE)

\* the positions of the pairs (old, new) of l whose new id is no available
\* variant of the product of old
RefusedPairs(d, l) ==
    {i \in 1..Len(Arg(l, "item_ids").v) :
        ~AvailableVariant(d, Arg(l, "order_id").v, Arg(l, "item_ids").v[i],
                          Arg(l, "new_item_ids").v[i])}

NotAvailable(id) == "Error: new item " \o id \o " not found or available"

\* the earlier checks of the exchange l pass: the order is delivered, holds
\* the old items as often as asked, as many new ids as old ones are given
PairsChecked(d, l) ==
    /\ ExchangeOfDelivered(d, l)
    /\ OverRequested(d, l) = {}
    /\ Len(Arg(l, "item_ids").v) = Len(Arg(l, "new_item_ids").v)

\* C27: exchange_delivered_order_items succeeds only if, for every pair (old,
\* new), new is a variant of the product of the order item old and is marked
\* available; a new id that is a variant of another product only, or is not
\* available, makes the exchange fail naming that new id, with no mutation.
C27_VariantOfProduct ==
    /\ IsCall(last, "exchange_delivered_order_items") /\ Succeeded(last)
       => RefusedPairs(raw_data, last) = {}
    /\ PairsChecked(raw_data, last) /\ RefusedPairs(raw_data, last) # {}
       => /\ \E i \in RefusedPairs(raw_data, last) :
                 FailedWith(last, NotAvailable(Arg(last, "new_item_ids").v[i].v))
          /\ data = raw_data

\* item A of the delivered #W002 has been asked to be exchanged for F, a
\* variant of the other product: the exchange has failed naming F
C27_Witness ==
    /\ last.via = "library"
    /\ last.action = ExchangeEntry("#W002", <<"A">>, <<"F">>, "gift_card_1")
    /\ Has(Get(Get(_get_products(raw_data), "P2"), "variants"), "F")
    /\ FailedWith(last, NotAvailable("F"))
    /\ data = raw_data

\* the least element of a non-empty set of positions
First(S) == CHOOSE i \in S : \A j \in S : i <= j

\* the payment method the exchange l names, of the owner of the order
MethodChosen(d, l) ==
    Get(MethodsOf(d, OwnerOf(d, Arg(l, "order_id").v)), Arg(l, "payment_method_id").v)

\* the error the exchange l is to report on the state d: that of the first
\* check that fails, in the order of the claim; no text when every check passes
ErrorDue(d, l) ==
    IF ~Has(_get_orders(d), Arg(l, "order_id").v) THEN "Error: order not found"
    ELSE IF StatusOf(d, Arg(l, "order_id").v) # "delivered" THEN NonDelivered
    ELSE IF OverRequested(d, l) # {}
    THEN NotFound(Arg(l, "item_ids").v[First(OverRequested(d, l))].v)
    ELSE IF Len(Arg(l, "item_ids").v) # Len(Arg(l, "new_item_ids").v)
    THEN "Error: the number of items to be exchanged should match"
    ELSE IF RefusedPairs(d, l) # {}
    THEN NotAvailable(Arg(l, "new_item_ids").v[First(RefusedPairs(d, l))].v)
    ELSE IF ~HasMethod(d, OwnerOf(d, Arg(l, "order_id").v), Arg(l, "payment_method_id").v)
    THEN "Error: payment method not found"
    ELSE IF /\ Get(MethodChosen(d, l), "source") = PStr("gift_card")
            /\ Cents(Get(MethodChosen(d, l), "balance"))
                   < SumOfDifferences(d, Arg(l, "order_id").v, Arg(l, "item_ids").v,
                                      Arg(l, "new_item_ids").v)
    THEN Insufficient
    ELSE ""

\* the seven errors of an exchange, for the ids x and y
ExchangeErrors(x, y) ==
    {"Error: order not found", NonDelivered, NotFound(x),
     "Error: the number of items to be exchanged should match", NotAvailable(y),
     "Error: payment method not found", Insufficient}

\* C28: when several preconditions of exchange_delivered_order_items fail at
\* once, the error reported is that of the first failing check in the order:
\* order not found, order not delivered, an old item asked for too often,
\* lists of unequal length, a new variant missing or unavailable (the first
\* such pair), payment method not found, insufficient gift-card balance; the
\* seven errors are distinct.
C28_FirstFailingCheck ==
    /\ IsCall(last, "exchange_delivered_order_items") /\ last.exc = "none"
       => IF ErrorDue(raw_data, last) = "" THEN Succeeded(last)
          ELSE FailedWith(last, ErrorDue(raw_data, last)) /\ data = raw_data
    /\ \A x, y \in {"A", "Z"} : Cardinality(ExchangeErrors(x, y)) = 7

\* an exchange that names an item #W001 does not hold, two new ids for one
\* old and a payment method nobody has, asked of the pending #W001, has been
\* refused for the status of the order
C28_Witness ==
    /\ last.via = "library"
    /\ last.action = ExchangeEntry("#W001", <<"Z">>, <<"B", "C">>, "gift_card_9")
    /\ StatusOf(raw_data, "#W001") = "pending"
    /\ FailedWith(last, NonDelivered)

\* ys holds the elements of xs, each as often as xs does, in ascending
\* lexicographic order
SortedCopy(xs, ys) ==
    /\ Len(ys) = Len(xs)
    /\ \A i \in 1..Len(xs) : Occurrences(ys, xs[i]) = Occurrences(xs, xs[i])
    /\ \A i \in 1..(Len(ys) - 1) : ys[i] = ys[i + 1] \/ StrLess(ys[i].v, ys[i + 1].v)

\* the order o of d carries what the exchange l is to record
ExchangeRecorded(before, d, l, o) ==
    /\ StatusOf(d, o) = "exchange requested"
    /\ SortedCopy(Arg(l, "item_ids").v, Get(OrderOf(d, o), "exchange_items").v)
    /\ SortedCopy(Arg(l, "new_item_ids").v, Get(OrderOf(d, o), "exchange_new_items").v)
    /\ Get(OrderOf(d, o), "exchange_payment_method_id") = Arg(l, "payment_method_id")
    /\ Get(OrderOf(d, o), "exchange_price_difference")
           = PFloat(SumOfDifferences(before, o, Arg(l, "item_ids").v,
                                     Arg(l, "new_item_ids").v))
    /\ l.ret.v[2] = OrderOf(d, o)

\* C29: a successful exchange_delivered_order_items sets the status of the
\* order to `exchange requested`, records exchange_items as item_ids sorted
\* lexicographically and exchange_new_items as new_item_ids sorted
\* lexicographically (duplicates kept), exchange_payment_method_id as the
\* payment method id given and exchange_price_difference as the rounded
\* difference, and returns the updated order.
C29_ExchangeRecorded ==
    IsCall(last, "exchange_delivered_order_items") /\ Succeeded(last)
        => ExchangeRecorded(raw_data, data, last, Arg(last, "order_id").v)

\* items E and A of #W002 have been exchanged for F and C: the order records
\* A, E and C, F
C29_Witness ==
    /\ last.via = "library"
    /\ last.action = ExchangeEntry("#W002", <<"E", "A">>, <<"F", "C">>, "credit_card_1")
    /\ Succeeded(last)
    /\ Get(OrderOf(data, "#W002"), "exchange_items") = StrList(<<"A", "E">>)
    /\ Get(OrderOf(data, "#W002"), "exchange_new_items") = StrList(<<"C", "F">>)

InvalidReason == "Error: invalid reason"

\* the reason of the cancel l is exactly one of the two allowed
ReasonAllowed(l) == Arg(l, "reason") \in {PStr("no longer needed"), PStr("ordered by mistake")}

\* C30: cancel_pending_order of a pending order with a reason other than
\* exactly `no longer needed` or `ordered by mistake` fails with the
\* invalid-reason error and leaves the state unchanged; the status is checked
\* before the reason, so a non-pending order with an invalid reason reports
\* the status error.
C30_InvalidReason ==
    IsCall(last, "cancel_pending_order") /\ Has(_get_orders(raw_data), Arg(last, "order_id").v)
        => /\ ~ReasonAllowed(last)
              => /\ data = raw_data
                 /\ IF StatusOf(raw_data, Arg(last, "order_id").v) = "pending"
                    THEN FailedWith(last, InvalidReason)
                    ELSE FailedWith(last, NonPending)
           /\ ReasonAllowed(last) /\ last.exc = "none" => ~FailedWith(last, InvalidReason)

\* the pending #W001 has been asked to be cancelled for `No longer needed`:
\* refused for the reason, nothing changed
C30_Witness ==
    /\ IsCallOn(last, "cancel_pending_order", "#W001")
    /\ Arg(last, "reason") = PStr("No longer needed")
    /\ StatusOf(raw_data, "#W001") = "pending"
    /\ FailedWith(last, InvalidReason)
    /\ data = raw_data

----------------------------------------------------------------------------
(* Properties of every sequence of actions, checked under Spec: raw_data   *)
(* is the state the sequence starts from, data the state it has reached.   *)

\* the refunds of the payments of history, in the order of the payments
RefundsOf(history) == [i \in 1..Len(history) |-> Refund(history[i])]

\* the history of the order o is the one it started with, or that one followed
\* by the refunds of its payments with the order cancelled
HistoryAppended(d0, d, o) ==
    \/ HistoryOf(d, o) = HistoryOf(d0, o)
    \/ /\ StatusOf(d, o) = "cancelled"
       /\ HistoryOf(d, o) = HistoryOf(d0, o) \o RefundsOf(HistoryOf(d0, o))

\* C31: the payment history is append-only under every sequence of actions: in
\* every reachable state the payment_history of each order starts with the
\* entries it held at the start, and what follows them is nothing, or the
\* refunds of one successful cancel, one for each payment and in the order of
\* the payments they refund.
C31_HistoryAppendOnly == \A o \in OrderIds : HistoryAppended(raw_data, data, o)

\* #W001, paid by card and by gift card, has been cancelled: its history holds
\* the two payments and then the two refunds
C31_Witness ==
    /\ Len(HistoryOf(raw_data, "#W001")) = 2
    /\ StatusOf(data, "#W001") = "cancelled"
    /\ Len(HistoryOf(data, "#W001")) = 4
    /\ HistoryOf(data, "#W001")[3] = Refund(HistoryOf(raw_data, "#W001")[1])

\* the fields cancel_pending_order and exchange_delivered_order_items add to
\* an order (_logic.py 190 and 141-146)
CancelKeys == {"cancel_reason"}

ExchangeKeys ==
    {"exchange_items", "exchange_new_items", "exchange_payment_method_id",
     "exchange_price_difference"}

\* the metadata fields the order o carries
MetaOf(d, o) == {k \in CancelKeys \cup ExchangeKeys : Has(OrderOf(d, o), k)}

\* the call l of name on o succeeded and took o from one status to the other
\* (step returns nothing, so its success shows in the status alone)
Performed(l, d, after, name, o, from, to) ==
    /\ Names(l, name, o)
    /\ l.exc = "none"
    /\ l.via = "library" => Succeeded(l)
    /\ StatusOf(d, o) = from
    /\ StatusOf(after, o) = to

\* o carries no metadata, or the reason of a cancelled order, or the four
\* exchange fields of an order whose exchange is requested
MetadataLawful(d, o) ==
    \/ MetaOf(d, o) = {}
    \/ MetaOf(d, o) = CancelKeys /\ StatusOf(d, o) = "cancelled"
    \/ MetaOf(d, o) = ExchangeKeys /\ StatusOf(d, o) = "exchange requested"

\* the metadata of o changes only as a successful cancel of o or a successful
\* exchange of o changes it
MetadataStep(l, d, after, o) ==
    MetaOf(after, o) # MetaOf(d, o) =>
        \/ /\ Performed(l, d, after, "cancel_pending_order", o, "pending", "cancelled")
           /\ MetaOf(after, o) = CancelKeys
        \/ /\ Performed(l, d, after, "exchange_delivered_order_items", o,
                        "delivered", "exchange requested")
           /\ MetaOf(after, o) = ExchangeKeys

\* C32: from a state whose orders carry no exchange or cancellation metadata,
\* after every sequence of actions an order carries cancel_reason only if it is
\* cancelled, through a successful cancel, and the exchange_* fields only if
\* its exchange is requested, through a successful exchange; an action that
\* fails adds none of these fields.
C32_MetadataOnSuccess ==
    [][\A o \in OrderIds :
          OrderOf(data', o) # OrderOf(data, o) =>
              /\ MetadataLawful(data', o)
              /\ MetadataStep(last', data, data', o)]_vars

\* #W001 has been cancelled and carries the reason, #W002 has been exchanged
\* and carries the four exchange fields, and the last call failed
C32_Witness ==
    /\ MetaOf(raw_data, "#W001") = {} /\ MetaOf(raw_data, "#W002") = {}
    /\ MetaOf(data, "#W001") = CancelKeys
    /\ MetaOf(data, "#W002") = ExchangeKeys
    /\ last.via = "library" /\ ~Succeeded(last)

----------------------------------------------------------------------------
(* Properties of the reward manager, checked under ManagerSpec.            *)

\* l is a call of the manager for the data source tau_retail
ManagedTauRetail(l) ==
    l.via = "manager" /\ Get(l.action, "data_source") = PStr("tau_retail")

\* C33 as the spec states it: for the data source tau_retail the manager calls
\* tau_retail.compute_score with parameters that function declares, its
\* required solution_str and ground_truth among them, and returns its reward,
\* 0.0 or 1.0, without raising.
C33_ManagerReturnsReward ==
    ManagedTauRetail(last) =>
        /\ Binds(ManagerKeywords, ScoreParameters, ScoreRequired)
        /\ last.exc = "none"
        /\ last.ret \in {PFloat(0), PFloat(100)}

----------------------------------------------------------------------------
(* Further properties of one mutating call, checked under CallSpec.        *)

\* l is a call of one of the two mutating functions of the library
IsMutatingCall(l) ==
    IsCall(l, "exchange_delivered_order_items") \/ IsCall(l, "cancel_pending_order")

\* C34 as the spec states it: each mutating action is all-or-nothing on every
\* input: a call of exchange_delivered_order_items or cancel_pending_order that
\* does not succeed, whether it returns a failure or aborts part-way, leaves the
\* state as it was, so that no gift-card balance is credited while the order
\* is still pending.
C34_AllOrNothing == IsMutatingCall(last) /\ ~Succeeded(last) => data = raw_data

----------------------------------------------------------------------------
(* Properties of the pairing of an exchange, checked under PairSpec:       *)
(* raw_data is the state before the call, data the state after it.         *)

\* the permutations of 1..n
Perms(n) == {p \in [1..n -> 1..n] : \A i, j \in 1..n : p[i] = p[j] => i = j}

\* xs re-ordered by p
Permuted(xs, p) == [i \in 1..Len(xs) |-> xs[p[i]]]

StartsWith(s, prefix) == Len(s) >= Len(prefix) /\ SubSeq(s, 1, Len(prefix)) = prefix

\* the kind of an outcome: the exception, success, or the error with the id
\* it names left out
KindOf(ret, exc) ==
    IF exc # "none" THEN exc
    ELSE IF ret.v[1] = PBool(TRUE) THEN "success"
    ELSE IF StartsWith(ret.v[2].v, "Error: new item ")
    THEN "Error: new item not found or available"
    ELSE IF ret.v[2].v \in {"Error: order not found", NonDelivered, Insufficient,
                            "Error: payment method not found",
                            "Error: the number of items to be exchanged should match"}
    THEN ret.v[2].v
    ELSE "Error: item not found"

\* the exchange of the entry action called on d with other lists of items
ExchangeWith(d, action, olds, news) ==
    exchange_delivered_order_items(d, Get(Get(action, "kwargs"), "order_id"),
                                   PList(olds), PList(news),
                                   Get(Get(action, "kwargs"), "payment_method_id"))

\* the call again has the kind of outcome of the call l and leaves a state
\* equivalent to d: one of the same fingerprint (0.0 == -0.0 in Python, so
\* that two states may compare equal and still differ in their fingerprints)
SameKindAndState(l, d, again) ==
    /\ KindOf(again.ret, again.exc) = KindOf(l.ret, l.exc)
    /\ get_data_hash(again.data) = get_data_hash(d)

\* the call again, if it succeeds, leaves a state of the fingerprint of d
SameStateIfSuccess(d, again) ==
    KindOf(again.ret, again.exc) = "success" =>
        get_data_hash(again.data) = get_data_hash(d)

\* the call l on the state d0, made with both lists re-ordered by one
\* permutation, has the same outcome
PermutationInvariant(d0, l, d) ==
    LET olds == Arg(l, "item_ids").v
        news == Arg(l, "new_item_ids").v
    IN  Len(olds) = Len(news) =>
            \A p \in Perms(Len(olds)) :
                SameKindAndState(l, d, ExchangeWith(d0, l.action, Permuted(olds, p),
                                               Permuted(news, p)))

\* a successful call l on the state d0 leaves the state every successful
\* exchange of the same old items and the same new items leaves, however the
\* two lists are ordered
PairingForgotten(d0, l, d) ==
    LET olds == Arg(l, "item_ids").v
        news == Arg(l, "new_item_ids").v
    IN  Succeeded(l) =>
            \A p, q \in Perms(Len(olds)) :
                SameStateIfSuccess(d, ExchangeWith(d0, l.action, Permuted(olds, p),
                                                   Permuted(news, q)))

\* C35 as the spec states it: the outcome of exchange_delivered_order_items
\* does not change when one permutation is applied to item_ids and to
\* new_item_ids (same kind of success or failure, same resulting state), and
\* two successful exchanges of one order by one payment method whose item_ids
\* are equal as multisets and whose new_item_ids are equal as multisets leave
\* states of one fingerprint, whichever old item was paired with which new
\* item.  The code does not keep it: the price difference is summed in the
\* order of the pairs, and a sum that cancels is 0.0 in one order and a
\* negative value below half a cent, rounded to -0.0, in another.
C35_PairingNotRecorded ==
    IsCall(last, "exchange_delivered_order_items") =>
        /\ PermutationInvariant(raw_data, last, data)
        /\ PairingForgotten(raw_data, last, data)

----------------------------------------------------------------------------
(* Properties of the canonical form, checked under ShapeSpec.              *)

RECURSIVE Ordered(_)
\* x with the keys of every mapping in sorted order, the kinds of the
\* containers kept: two values have the same shape and content, up to the
\* order of the keys of a mapping and of the elements of a set (a set of the
\* model has none), iff Ordered makes them equal
Ordered(x) ==
    CASE x.t = "dict" ->
            PDict(SortedPairs([i \in 1..Len(x.v) |-> <<x.v[i][1], Ordered(x.v[i][2])>>]))
      [] x.t = "list" -> PList([i \in 1..Len(x.v) |-> Ordered(x.v[i])])
      [] x.t = "set" -> PSet({Ordered(e) : e \in x.v})
      [] OTHER -> x

SameShape(x, y) == Ordered(x) = Ordered(y)

\* C36 as the spec states it: to_hashable is injective up to the order of the
\* keys of a mapping and of the elements of a set: two nested values are
\* given equal fingerprints only if they have the same shape and content, so
\* that a mapping and the list of its [key, value] pairs, a set and the list
\* of its sorted elements, or two values that differ in a scalar, never have
\* equal fingerprints.  The code does not keep it: a dict, a list and a set
\* all become tuples.
C36_CanonicalFormInjective ==
    last.via = "to_hashable" /\ last.ret.v[1] = last.ret.v[2] => SameShape(raw_data, data)

====
